---- MODULE Spec2Model ----
(***************************************************************************)
(* A model of the nutrition-resolution and learning pipeline of the        *)
(* calorie tracking application:                                           *)
(*   - enhanced_food_database.py : the brand/enhanced registry             *)
(*   - web_search_nutrition.py   : the free-text inference client          *)
(*   - calorie_calculator.py     : CalorieCalculator.calculate_calories    *)
(*   - hyper_accurate_calculator.py : the multi-item weight distribution   *)
(*   - app.py : classify_food_category, get_learning_context,              *)
(*              apply_learning_adjustments                                 *)
(*                                                                         *)
(* Python strings are TLA+ strings (Len, SubSeq, Head, Tail and \o act on  *)
(* them as on sequences of characters).  Python floats are exact rationals *)
(* [n, d] in lowest terms: the model abstracts binary floating-point error *)
(* and keeps everything else of the arithmetic (scaling, rounding to one   *)
(* decimal, ratios, thresholds).                                           *)
(***************************************************************************)
EXTENDS Integers, Sequences, FiniteSets, TLC

VARIABLES
    pc,                  \* position of the call under analysis
    recognition_result,  \* input of calculate_calories
    web_reply,           \* what the inference service answers in this call
    usda_reply,          \* what the government service answers in this call
    calorie_result,      \* what calculate_calories returned (or that it raised)
    calls,               \* the external clients consulted, in order
    foods,               \* input of _estimate_weight_distribution
    total_weight,        \* input of _estimate_weight_distribution
    distribution,        \* its output: sequence of <<food, weight>> items
    food_name,           \* input of classify_food_category
    category,            \* its output
    user_feedback,       \* the user_feedback table, in creation order
    analysis_result,     \* input of apply_learning_adjustments
    current_user,        \* the user the adjustment is made for
    adjusted,            \* output of apply_learning_adjustments
    food_entries,        \* the food_entries table, in id order
    upload_estimates,    \* for each entry, what upload_food stored in it
    correction_estimates,\* for each user_feedback row, what upload_food had
                         \* stored in the entry whose edit created the row
    now,                 \* the clock of the image store, in ticks
    upload_folder,       \* static/uploads: file name -> modification time
    archive_folder,      \* archives: zip name -> names of its members
    image_path,          \* food_entries.image_path by image_filename
    archived_in          \* for each image cleanup removed, the zip it was
                         \* last written to

vars == <<pc, recognition_result, web_reply, usda_reply, calorie_result, calls,
          foods, total_weight, distribution, food_name, category,
          user_feedback, analysis_result, current_user, adjusted,
          food_entries, upload_estimates, correction_estimates,
          now, upload_folder, archive_folder, image_path, archived_in>>

resolverVars == <<recognition_result, web_reply, usda_reply, calorie_result, calls>>
distributionVars == <<foods, total_weight, distribution>>
classifyVars == <<food_name, category>>
entryVars == <<food_entries, upload_estimates, correction_estimates>>
learningVars == <<user_feedback, analysis_result, current_user, adjusted, entryVars>>
cleanupVars == <<now, upload_folder, archive_folder, image_path, archived_in>>

\* the image store when no image was ever uploaded
NoImages ==
    /\ now = 0
    /\ upload_folder = <<>> /\ archive_folder = <<>>
    /\ image_path = <<>> /\ archived_in = <<>>

\* Python values that are not numbers, strings or dicts.  A number is a record
\* [n, d], a dict is a record of its keys, so these are records too.
None == [py |-> "None"]            \* None
WrongType == [py |-> "str"]        \* a value of another type where a number is expected
Unset == [py |-> "unset"]          \* a variable that holds nothing yet
EmptyDict == <<>>                  \* {}

\* d.get(k, default)
Get(d, k, default) == IF k \in DOMAIN d THEN d[k] ELSE default

\* d.copy(); d.update(u)
Update(d, u) == [k \in DOMAIN d \cup DOMAIN u |-> IF k \in DOMAIN u THEN u[k] ELSE d[k]]

\* the index of the first element of seq that satisfies P, 0 when there is none
FirstIndex(seq, P(_)) ==
    IF \E i \in 1..Len(seq) : P(seq[i])
    THEN CHOOSE i \in 1..Len(seq) : P(seq[i]) /\ \A j \in 1..(i - 1) : ~P(seq[j])
    ELSE 0

\* a local variable: Body evaluated with its parameter bound to value
Bind(value, Body(_)) == Body(value)

\* the outcome of evaluating Python code that may raise
Ret(v) == [raised |-> FALSE, val |-> v]
Raise == [raised |-> TRUE, val |-> None]

-----------------------------------------------------------------------------
(* Strings *)

LowerChar(c) ==
    CASE c = "A" -> "a" [] c = "B" -> "b" [] c = "C" -> "c" [] c = "D" -> "d"
      [] c = "E" -> "e" [] c = "F" -> "f" [] c = "G" -> "g" [] c = "H" -> "h"
      [] c = "I" -> "i" [] c = "J" -> "j" [] c = "K" -> "k" [] c = "L" -> "l"
      [] c = "M" -> "m" [] c = "N" -> "n" [] c = "O" -> "o" [] c = "P" -> "p"
      [] c = "Q" -> "q" [] c = "R" -> "r" [] c = "S" -> "s" [] c = "T" -> "t"
      [] c = "U" -> "u" [] c = "V" -> "v" [] c = "W" -> "w" [] c = "X" -> "x"
      [] c = "Y" -> "y" [] c = "Z" -> "z" [] OTHER -> c

RECURSIVE Lower(_)
\* str.lower()
Lower(s) == IF s = "" THEN "" ELSE LowerChar(Head(s)) \o Lower(Tail(s))

IsSpace(c) == c = " "

RECURSIVE LStrip(_)
LStrip(s) == IF s # "" /\ IsSpace(Head(s)) THEN LStrip(Tail(s)) ELSE s

RECURSIVE RStrip(_)
RStrip(s) ==
    IF s # "" /\ IsSpace(SubSeq(s, Len(s), Len(s)))
    THEN RStrip(SubSeq(s, 1, Len(s) - 1))
    ELSE s

\* str.strip()
Strip(s) == RStrip(LStrip(s))

\* needle in hay  (Python substring test; the empty string is in every string)
In(needle, hay) ==
    \E i \in 1..(Len(hay) - Len(needle) + 1) :
        SubSeq(hay, i, i + Len(needle) - 1) = needle

\* hay.startswith(needle)
StartsWith(hay, needle) ==
    Len(needle) <= Len(hay) /\ SubSeq(hay, 1, Len(needle)) = needle

\* any(word in s for word in words), words a sequence of strings
AnyIn(words, s) == \E i \in 1..Len(words) : In(words[i], s)

RECURSIVE Split(_, _, _)
\* s.split() read left to right: cur is the run of non-blank characters so far
Split(s, cur, acc) ==
    IF s = "" THEN (IF cur = "" THEN acc ELSE acc \cup {cur})
    ELSE IF IsSpace(Head(s))
    THEN Split(Tail(s), "", IF cur = "" THEN acc ELSE acc \cup {cur})
    ELSE Split(Tail(s), cur \o Head(s), acc)

\* set(s.split()): the maximal runs of non-blank characters
Words(s) == Split(s, "", {})

-----------------------------------------------------------------------------
(* Numbers: a Python float is the rational n/d, d > 0, in lowest terms *)

Abs(x) == IF x < 0 THEN -x ELSE x

RECURSIVE GCD(_, _)
GCD(a, b) == IF b = 0 THEN a ELSE GCD(b, a % b)

Q(n, d) == LET g == GCD(Abs(n), d) IN [n |-> n \div g, d |-> d \div g]

Zero == Q(0, 1)
One == Q(1, 1)
Int2Q(i) == Q(i, 1)

IsNumber(x) == DOMAIN x = {"n", "d"}

LCD(a, b) == (a.d \div GCD(a.d, b.d)) * b.d

QAdd(a, b) == Q(a.n * (LCD(a, b) \div a.d) + b.n * (LCD(a, b) \div b.d), LCD(a, b))
QSub(a, b) == Q(a.n * (LCD(a, b) \div a.d) - b.n * (LCD(a, b) \div b.d), LCD(a, b))
\* factors are cancelled crosswise before multiplying
QMul(a, b) ==
    LET x == Q(a.n, b.d)
        y == Q(b.n, a.d)
    IN  Q(x.n * y.n, x.d * y.d)
QDiv(a, b) == QMul(a, IF b.n < 0 THEN [n |-> -b.d, d |-> -b.n] ELSE [n |-> b.d, d |-> b.n])
QAbs(a) == [n |-> Abs(a.n), d |-> a.d]
QLt(a, b) == a.n * (LCD(a, b) \div a.d) < b.n * (LCD(a, b) \div b.d)
QLe(a, b) == a.n * (LCD(a, b) \div a.d) <= b.n * (LCD(a, b) \div b.d)
QGt(a, b) == QLt(b, a)
QGe(a, b) == QLe(b, a)

RECURSIVE Pow10(_)
Pow10(k) == IF k = 0 THEN 1 ELSE 10 * Pow10(k - 1)

\* a variant of Round that leaves the value as it is
Unrounded(x, k) == x

\* round(x, k): to k decimals.  A float is modelled by the exact rational, so
\* a value halfway between two neighbours goes to the even digit, where the
\* binary representation of the float may put it on either side.
Round(x, k) ==
    LET num == x.n * Pow10(k)
        fl  == num \div x.d
        rem == num % x.d
        up  == \/ 2 * rem > x.d
               \/ (2 * rem = x.d /\ fl % 2 = 1)
    IN  Q(IF up THEN fl + 1 ELSE fl, Pow10(k))

\* Python truthiness of a number-or-None: None and 0 are false
Truthy(x) == x # None /\ x # Zero

-----------------------------------------------------------------------------
(* enhanced_food_database.py: the brand/enhanced registry.  Python dicts     *)
(* iterate in insertion order, so a dict that is scanned is a sequence of    *)
(* rows carrying their key.                                                  *)

ENHANCED_FOOD_DATABASE == <<
    [key |-> "big mac", calories_per_100g |-> Q(257, 1), protein_per_100g |-> Q(13, 1),
     carbs_per_100g |-> Q(20, 1), fat_per_100g |-> Q(17, 1),
     typical_weight |-> Q(222, 1), typical_calories |-> Q(570, 1)],
    [key |-> "bigmac", calories_per_100g |-> Q(257, 1), protein_per_100g |-> Q(13, 1),
     carbs_per_100g |-> Q(20, 1), fat_per_100g |-> Q(17, 1),
     typical_weight |-> Q(222, 1), typical_calories |-> Q(570, 1)],
    [key |-> "mcdonald big mac", calories_per_100g |-> Q(257, 1), protein_per_100g |-> Q(13, 1),
     carbs_per_100g |-> Q(20, 1), fat_per_100g |-> Q(17, 1),
     typical_weight |-> Q(222, 1), typical_calories |-> Q(570, 1)],
    [key |-> "quarter pounder", calories_per_100g |-> Q(265, 1), protein_per_100g |-> Q(15, 1),
     carbs_per_100g |-> Q(22, 1), fat_per_100g |-> Q(16, 1),
     typical_weight |-> Q(194, 1), typical_calories |-> Q(515, 1)],
    [key |-> "mcchicken", calories_per_100g |-> Q(208, 1), protein_per_100g |-> Q(12, 1),
     carbs_per_100g |-> Q(20, 1), fat_per_100g |-> Q(11, 1),
     typical_weight |-> Q(143, 1), typical_calories |-> Q(400, 1)],
    [key |-> "chicken mcnuggets", calories_per_100g |-> Q(300, 1), protein_per_100g |-> Q(18, 1),
     carbs_per_100g |-> Q(13, 1), fat_per_100g |-> Q(20, 1),
     typical_weight |-> Q(77, 1), typical_calories |-> Q(230, 1)],
    [key |-> "whopper", calories_per_100g |-> Q(250, 1), protein_per_100g |-> Q(13, 1),
     carbs_per_100g |-> Q(22, 1), fat_per_100g |-> Q(15, 1),
     typical_weight |-> Q(291, 1), typical_calories |-> Q(660, 1)],
    [key |-> "burger king whopper", calories_per_100g |-> Q(250, 1), protein_per_100g |-> Q(13, 1),
     carbs_per_100g |-> Q(22, 1), fat_per_100g |-> Q(15, 1),
     typical_weight |-> Q(291, 1), typical_calories |-> Q(660, 1)],
    [key |-> "baconator", calories_per_100g |-> Q(349, 1), protein_per_100g |-> Q(20, 1),
     carbs_per_100g |-> Q(25, 1), fat_per_100g |-> Q(23, 1),
     typical_weight |-> Q(275, 1), typical_calories |-> Q(960, 1)],
    [key |-> "wendys baconator", calories_per_100g |-> Q(349, 1), protein_per_100g |-> Q(20, 1),
     carbs_per_100g |-> Q(25, 1), fat_per_100g |-> Q(23, 1),
     typical_weight |-> Q(275, 1), typical_calories |-> Q(960, 1)],
    [key |-> "son of baconator", calories_per_100g |-> Q(290, 1), protein_per_100g |-> Q(18, 1),
     carbs_per_100g |-> Q(23, 1), fat_per_100g |-> Q(18, 1),
     typical_weight |-> Q(200, 1), typical_calories |-> Q(580, 1)],
    [key |-> "pizza slice", calories_per_100g |-> Q(266, 1), protein_per_100g |-> Q(11, 1),
     carbs_per_100g |-> Q(33, 1), fat_per_100g |-> Q(10, 1),
     typical_weight |-> Q(100, 1), typical_calories |-> Q(285, 1)],
    [key |-> "pepperoni pizza", calories_per_100g |-> Q(298, 1), protein_per_100g |-> Q(12, 1),
     carbs_per_100g |-> Q(30, 1), fat_per_100g |-> Q(15, 1),
     typical_weight |-> Q(120, 1), typical_calories |-> Q(358, 1)],
    [key |-> "cheese pizza", calories_per_100g |-> Q(276, 1), protein_per_100g |-> Q(12, 1),
     carbs_per_100g |-> Q(33, 1), fat_per_100g |-> Q(11, 1),
     typical_weight |-> Q(100, 1), typical_calories |-> Q(276, 1)],
    [key |-> "margherita pizza", calories_per_100g |-> Q(250, 1), protein_per_100g |-> Q(11, 1),
     carbs_per_100g |-> Q(32, 1), fat_per_100g |-> Q(9, 1),
     typical_weight |-> Q(120, 1), typical_calories |-> Q(300, 1)],
    [key |-> "apple", calories_per_100g |-> Q(52, 1), protein_per_100g |-> Q(3, 10),
     carbs_per_100g |-> Q(14, 1), fat_per_100g |-> Q(2, 10),
     typical_weight |-> Q(150, 1), typical_calories |-> Q(78, 1)],
    [key |-> "banana", calories_per_100g |-> Q(89, 1), protein_per_100g |-> Q(11, 10),
     carbs_per_100g |-> Q(23, 1), fat_per_100g |-> Q(3, 10),
     typical_weight |-> Q(120, 1), typical_calories |-> Q(107, 1)],
    [key |-> "rice and beans", calories_per_100g |-> Q(135, 1), protein_per_100g |-> Q(45, 10),
     carbs_per_100g |-> Q(24, 1), fat_per_100g |-> Q(2, 1),
     typical_weight |-> Q(200, 1), typical_calories |-> Q(270, 1)],
    [key |-> "rice", calories_per_100g |-> Q(130, 1), protein_per_100g |-> Q(27, 10),
     carbs_per_100g |-> Q(28, 1), fat_per_100g |-> Q(3, 10),
     typical_weight |-> Q(150, 1), typical_calories |-> Q(195, 1)],
    [key |-> "caesar salad", calories_per_100g |-> Q(90, 1), protein_per_100g |-> Q(35, 10),
     carbs_per_100g |-> Q(6, 1), fat_per_100g |-> Q(7, 1),
     typical_weight |-> Q(200, 1), typical_calories |-> Q(180, 1)],
    [key |-> "green salad", calories_per_100g |-> Q(20, 1), protein_per_100g |-> Q(15, 10),
     carbs_per_100g |-> Q(4, 1), fat_per_100g |-> Q(2, 10),
     typical_weight |-> Q(100, 1), typical_calories |-> Q(20, 1)],
    [key |-> "grilled chicken", calories_per_100g |-> Q(165, 1), protein_per_100g |-> Q(31, 1),
     carbs_per_100g |-> Q(0, 1), fat_per_100g |-> Q(36, 10),
     typical_weight |-> Q(120, 1), typical_calories |-> Q(198, 1)],
    [key |-> "fried chicken", calories_per_100g |-> Q(320, 1), protein_per_100g |-> Q(19, 1),
     carbs_per_100g |-> Q(8, 1), fat_per_100g |-> Q(24, 1),
     typical_weight |-> Q(100, 1), typical_calories |-> Q(320, 1)],
    [key |-> "sandwich", calories_per_100g |-> Q(250, 1), protein_per_100g |-> Q(12, 1),
     carbs_per_100g |-> Q(30, 1), fat_per_100g |-> Q(10, 1),
     typical_weight |-> Q(150, 1), typical_calories |-> Q(375, 1)],
    [key |-> "club sandwich", calories_per_100g |-> Q(280, 1), protein_per_100g |-> Q(15, 1),
     carbs_per_100g |-> Q(25, 1), fat_per_100g |-> Q(15, 1),
     typical_weight |-> Q(200, 1), typical_calories |-> Q(560, 1)],
    [key |-> "burrito", calories_per_100g |-> Q(206, 1), protein_per_100g |-> Q(8, 1),
     carbs_per_100g |-> Q(28, 1), fat_per_100g |-> Q(7, 1),
     typical_weight |-> Q(220, 1), typical_calories |-> Q(453, 1)],
    [key |-> "quesadilla", calories_per_100g |-> Q(234, 1), protein_per_100g |-> Q(11, 1),
     carbs_per_100g |-> Q(22, 1), fat_per_100g |-> Q(12, 1),
     typical_weight |-> Q(150, 1), typical_calories |-> Q(351, 1)],
    [key |-> "taco", calories_per_100g |-> Q(206, 1), protein_per_100g |-> Q(10, 1),
     carbs_per_100g |-> Q(18, 1), fat_per_100g |-> Q(11, 1),
     typical_weight |-> Q(70, 1), typical_calories |-> Q(144, 1)],
    [key |-> "roti", calories_per_100g |-> Q(299, 1), protein_per_100g |-> Q(9, 1),
     carbs_per_100g |-> Q(50, 1), fat_per_100g |-> Q(8, 1),
     typical_weight |-> Q(40, 1), typical_calories |-> Q(120, 1)],
    [key |-> "chapati", calories_per_100g |-> Q(299, 1), protein_per_100g |-> Q(9, 1),
     carbs_per_100g |-> Q(50, 1), fat_per_100g |-> Q(8, 1),
     typical_weight |-> Q(40, 1), typical_calories |-> Q(120, 1)],
    [key |-> "naan", calories_per_100g |-> Q(310, 1), protein_per_100g |-> Q(9, 1),
     carbs_per_100g |-> Q(45, 1), fat_per_100g |-> Q(12, 1),
     typical_weight |-> Q(80, 1), typical_calories |-> Q(248, 1)],
    [key |-> "dal", calories_per_100g |-> Q(130, 1), protein_per_100g |-> Q(8, 1),
     carbs_per_100g |-> Q(20, 1), fat_per_100g |-> Q(2, 1),
     typical_weight |-> Q(150, 1), typical_calories |-> Q(195, 1)],
    [key |-> "dal curry", calories_per_100g |-> Q(130, 1), protein_per_100g |-> Q(8, 1),
     carbs_per_100g |-> Q(20, 1), fat_per_100g |-> Q(2, 1),
     typical_weight |-> Q(150, 1), typical_calories |-> Q(195, 1)],
    [key |-> "lentil curry", calories_per_100g |-> Q(130, 1), protein_per_100g |-> Q(8, 1),
     carbs_per_100g |-> Q(20, 1), fat_per_100g |-> Q(2, 1),
     typical_weight |-> Q(150, 1), typical_calories |-> Q(195, 1)],
    [key |-> "roti and dal", calories_per_100g |-> Q(180, 1), protein_per_100g |-> Q(8, 1),
     carbs_per_100g |-> Q(30, 1), fat_per_100g |-> Q(4, 1),
     typical_weight |-> Q(240, 1), typical_calories |-> Q(432, 1)],
    [key |-> "rice and dal", calories_per_100g |-> Q(135, 1), protein_per_100g |-> Q(5, 1),
     carbs_per_100g |-> Q(25, 1), fat_per_100g |-> Q(2, 1),
     typical_weight |-> Q(250, 1), typical_calories |-> Q(338, 1)],
    [key |-> "pasta with sauce", calories_per_100g |-> Q(131, 1), protein_per_100g |-> Q(5, 1),
     carbs_per_100g |-> Q(25, 1), fat_per_100g |-> Q(11, 10),
     typical_weight |-> Q(250, 1), typical_calories |-> Q(328, 1)],
    [key |-> "spaghetti", calories_per_100g |-> Q(158, 1), protein_per_100g |-> Q(6, 1),
     carbs_per_100g |-> Q(31, 1), fat_per_100g |-> Q(1, 1),
     typical_weight |-> Q(200, 1), typical_calories |-> Q(316, 1)],
    [key |-> "pancakes", calories_per_100g |-> Q(227, 1), protein_per_100g |-> Q(6, 1),
     carbs_per_100g |-> Q(28, 1), fat_per_100g |-> Q(9, 1),
     typical_weight |-> Q(80, 1), typical_calories |-> Q(182, 1)],
    [key |-> "waffle", calories_per_100g |-> Q(291, 1), protein_per_100g |-> Q(8, 1),
     carbs_per_100g |-> Q(33, 1), fat_per_100g |-> Q(14, 1),
     typical_weight |-> Q(75, 1), typical_calories |-> Q(218, 1)],
    [key |-> "french toast", calories_per_100g |-> Q(230, 1), protein_per_100g |-> Q(8, 1),
     carbs_per_100g |-> Q(25, 1), fat_per_100g |-> Q(11, 1),
     typical_weight |-> Q(65, 1), typical_calories |-> Q(150, 1)] >>

FOOD_CATEGORIES == <<
    [category |-> "fast_food", foods |-> <<"big mac", "bigmac", "whopper", "quarter pounder", "mcchicken", "baconator", "son of baconator">>],
    [category |-> "pizza", foods |-> <<"pizza", "pepperoni pizza", "cheese pizza", "margherita pizza">>],
    [category |-> "mexican", foods |-> <<"burrito", "quesadilla", "taco", "salsa">>],
    [category |-> "asian", foods |-> <<"rice", "noodles", "sushi", "stir fry">>],
    [category |-> "indian", foods |-> <<"roti", "chapati", "naan", "dal", "curry", "biryani", "tandoori", "roti and dal", "rice and dal">>],
    [category |-> "breakfast", foods |-> <<"pancakes", "waffle", "french toast", "eggs", "bacon">>],
    [category |-> "salads", foods |-> <<"caesar salad", "green salad", "garden salad">>],
    [category |-> "sandwiches", foods |-> <<"sandwich", "club sandwich", "blt", "grilled cheese">>] >>
\* the row of ENHANCED_FOOD_DATABASE with this key (the key is known to exist)
EnhancedRow(key) ==
    ENHANCED_FOOD_DATABASE[FirstIndex(ENHANCED_FOOD_DATABASE, LAMBDA e : e.key = key)]

InEnhancedDatabase(key) ==
    \E i \in 1..Len(ENHANCED_FOOD_DATABASE) : ENHANCED_FOOD_DATABASE[i].key = key

\* lines 105-106, for one food of a category
CategoryHit(food, food_lower) ==
    /\ (In(food, food_lower) \/ In(food_lower, food))
    /\ InEnhancedDatabase(food)

get_enhanced_nutrition_data(name) ==
    Bind(Strip(Lower(name)), LAMBDA food_lower :
        \* Direct lookup
        IF InEnhancedDatabase(food_lower) THEN EnhancedRow(food_lower)
        ELSE
        \* Fuzzy matching
        Bind(FirstIndex(ENHANCED_FOOD_DATABASE,
                        LAMBDA e : In(food_lower, e.key) \/ In(e.key, food_lower)),
             LAMBDA fuzzy :
        IF fuzzy # 0 THEN ENHANCED_FOOD_DATABASE[fuzzy]
        ELSE
        \* Category-based matching
        Bind(FirstIndex(FOOD_CATEGORIES,
                        LAMBDA c : \E j \in 1..Len(c.foods) :
                                      CategoryHit(c.foods[j], food_lower)),
             LAMBDA cat :
        IF cat # 0
        THEN Bind(FOOD_CATEGORIES[cat].foods, LAMBDA fs :
                 EnhancedRow(fs[FirstIndex(fs, LAMBDA food : CategoryHit(food, food_lower))]))
        ELSE None)))

Hundred == Q(100, 1)

\* a variant of EnhancedCalories that always scales the per-100g figure
ScaledCaloriesOnly(nutrition_data, weight_grams) ==
    QMul(nutrition_data.calories_per_100g, QDiv(weight_grams, Hundred))

\* the calories of a registry row at a weight, before rounding (lines 121-126)
EnhancedCalories(nutrition_data, weight_grams) ==
    IF /\ "typical_calories" \in DOMAIN nutrition_data
       /\ weight_grams = Get(nutrition_data, "typical_weight", None)
    THEN nutrition_data.typical_calories
    ELSE QMul(nutrition_data.calories_per_100g, QDiv(weight_grams, Hundred))

\* weight_grams is a number or None
calculate_accurate_calories(name, weight_grams) ==
    Bind(get_enhanced_nutrition_data(name), LAMBDA nutrition_data :
    Bind(IF weight_grams = None
         THEN Get(nutrition_data, "typical_weight", Hundred)
         ELSE weight_grams, LAMBDA w :
    Bind(QDiv(w, Hundred), LAMBDA scale :
        IF nutrition_data # None
        THEN [total_calories |-> Round(EnhancedCalories(nutrition_data, w), 1),
              protein |-> Round(QMul(Get(nutrition_data, "protein_per_100g", Zero), scale), 1),
              carbs |-> Round(QMul(Get(nutrition_data, "carbs_per_100g", Zero), scale), 1),
              fat |-> Round(QMul(Get(nutrition_data, "fat_per_100g", Zero), scale), 1),
              weight_grams |-> w,
              data_source |-> "enhanced_database",
              accuracy |-> "high"]
        ELSE None)))

-----------------------------------------------------------------------------
(* web_search_nutrition.py: WebSearchNutritionCalculator, the free-text      *)
(* inference client.                                                         *)
(*                                                                           *)
(* What the service does with one POST is an input of the model:             *)
(*   [kind |-> "exception"]                  requests.post or response.json  *)
(*                                           raised (timeout, no connection) *)
(*   [kind |-> "response", status_code, content]                             *)
(* and the text of a completion is the record                                *)
(*   [start, end, loads]: start = content.find('{'), end = content.rfind('}')*)
(*   + 1 and loads = what json.loads makes of content[start:end]: a dict, or *)
(*   JSONDecodeError.                                                        *)

web_fast_food_chains ==
    <<"mcdonalds", "mcdonald", "burger king", "kfc", "taco bell", "subway", "pizza hut",
      "dominos", "starbucks", "dunkin", "wendys", "wendy", "chipotle", "five guys",
      "in-n-out", "jack in the box", "carl jr", "hardees", "arbys", "dairy queen", "sonic",
      "papa johns", "little caesars", "popeyes", "chick-fil-a">>

web_search_keywords ==
    <<"big mac", "whopper", "quarter pounder", "mcchicken", "baconator", "pizza",
      "starbucks", "frappuccino", "latte", "branded", "restaurant", "chain">>
JSONDecodeError == [py |-> "JSONDecodeError"]

NutrientFields == <<"calories", "protein", "carbs", "fat", "fiber", "sugar", "sodium">>

web_is_fast_food_item(name) == AnyIn(web_fast_food_chains, Lower(name))

_needs_web_search(name) == AnyIn(web_search_keywords, Lower(name))

\* returns the dict, or None
_parse_nutrition_json(content) ==
    IF content.start # -1 /\ content.end > content.start
    THEN IF content.loads = JSONDecodeError THEN None ELSE content.loads
    ELSE None

\* a variant of _scale_nutrition_data that hands the reply back as it came
ReturnUnscaled(nutrition_data, target_weight) == Ret(nutrition_data)

\* may raise: TypeError (a field that is no number), ZeroDivisionError
_scale_nutrition_data(nutrition_data, target_weight) ==
    LET original_weight == Get(nutrition_data, "serving_weight_grams", Hundred)
        scale_factor == QDiv(target_weight, original_weight)
        Field(f) == Get(nutrition_data, f, Zero)
    IN  IF ~IsNumber(original_weight) \/ original_weight = Zero THEN Raise
        ELSE IF \E i \in 1..Len(NutrientFields) : ~IsNumber(Field(NutrientFields[i]))
        THEN Raise
        ELSE Ret(Update(nutrition_data,
                 [calories |-> QMul(Field("calories"), scale_factor),
                  protein |-> QMul(Field("protein"), scale_factor),
                  carbs |-> QMul(Field("carbs"), scale_factor),
                  fat |-> QMul(Field("fat"), scale_factor),
                  fiber |-> QMul(Field("fiber"), scale_factor),
                  sugar |-> QMul(Field("sugar"), scale_factor),
                  sodium |-> QMul(Field("sodium"), scale_factor),
                  serving_weight_grams |-> target_weight,
                  serving_description |-> [fmt |-> "{}g portion", arg |-> target_weight]]))

\* returns the dict, or None; every exception is caught inside
_search_fast_food_nutrition(name, estimated_weight, reply) ==
    IF reply.kind = "exception" THEN None
    ELSE IF reply.status_code # 200 THEN None
    ELSE Bind(_parse_nutrition_json(reply.content), LAMBDA nutrition_data :
         IF /\ nutrition_data # None
            /\ nutrition_data # EmptyDict
            /\ "error" \notin DOMAIN nutrition_data
         THEN Bind(IF /\ Truthy(estimated_weight)
                      /\ estimated_weight #
                             Get(nutrition_data, "serving_weight_grams", estimated_weight)
                   THEN _scale_nutrition_data(nutrition_data, estimated_weight)
                   ELSE Ret(nutrition_data), LAMBDA scaled :
              IF scaled.raised THEN None
              \* print(f"... {nutrition_data.get('confidence', 0):.2f} ...")
              ELSE IF ~IsNumber(Get(scaled.val, "confidence", Zero)) THEN None
              ELSE scaled.val)
         ELSE None)

Thousand == Q(1000, 1)

\* returns the dict, or None; every exception is caught inside
_search_general_nutrition(name, estimated_weight, reply) ==
    IF reply.kind = "exception" THEN None
    ELSE IF reply.status_code # 200 THEN None
    ELSE LET nutrition_data == _parse_nutrition_json(reply.content)
             actual_weight == IF Truthy(estimated_weight) THEN estimated_weight ELSE Hundred
             scale_factor == QDiv(actual_weight, Hundred)
             Field(f) == Get(nutrition_data, f, Zero)
             Per100g == <<"calories_per_100g", "protein_per_100g", "carbs_per_100g",
                          "fat_per_100g", "fiber_per_100g", "sugar_per_100g",
                          "sodium_per_100g">>
         IN  IF /\ nutrition_data # None
                /\ nutrition_data # EmptyDict
                /\ "error" \notin DOMAIN nutrition_data
             THEN IF \E i \in 1..Len(Per100g) : ~IsNumber(Field(Per100g[i]))
                  THEN None
                  ELSE [food_name |-> Get(nutrition_data, "food_name", name),
                        calories |-> QMul(Field("calories_per_100g"), scale_factor),
                        protein |-> QMul(Field("protein_per_100g"), scale_factor),
                        carbs |-> QMul(Field("carbs_per_100g"), scale_factor),
                        fat |-> QMul(Field("fat_per_100g"), scale_factor),
                        fiber |-> QMul(Field("fiber_per_100g"), scale_factor),
                        sugar |-> QMul(Field("sugar_per_100g"), scale_factor),
                        sodium |-> QDiv(QMul(Field("sodium_per_100g"), scale_factor),
                                        Thousand),
                        serving_weight_grams |-> actual_weight,
                        confidence |-> Get(nutrition_data, "confidence", Q(7, 10)),
                        source |-> Get(nutrition_data, "source", "web_search"),
                        data_source |-> "web_search"]
             ELSE None

\* returns the dict, or None
get_web_search_nutrition(name, estimated_weight, reply) ==
    IF web_is_fast_food_item(name)
    THEN _search_fast_food_nutrition(name, estimated_weight, reply)
    ELSE IF _needs_web_search(name)
    THEN _search_general_nutrition(name, estimated_weight, reply)
    ELSE None

\* the number of requests get_web_search_nutrition posts to the service
WebPosts(name) == IF web_is_fast_food_item(name) \/ _needs_web_search(name) THEN 1 ELSE 0

\* the record built from accepted web data (calculate_calories lines 93-107
\* and enhance_nutrition_with_web_search lines 263-278); round() raises
\* TypeError on a field that is no number
WebRecord(web_data, name, estimated_weight, source_tag) ==
    LET Field(f) == Get(web_data, f, Zero)
    IN  IF \E i \in 1..Len(NutrientFields) : ~IsNumber(Field(NutrientFields[i]))
        THEN Raise
        ELSE Ret([food_name |-> Get(web_data, "food_name", name),
                  weight_grams |-> Get(web_data, "serving_weight_grams", estimated_weight),
                  total_calories |-> Round(Field("calories"), 1),
                  protein |-> Round(Field("protein"), 1),
                  carbs |-> Round(Field("carbs"), 1),
                  fat |-> Round(Field("fat"), 1),
                  fiber |-> Round(Field("fiber"), 1),
                  sugar |-> Round(Field("sugar"), 1),
                  sodium |-> Round(Field("sodium"), 3),
                  data_source |-> source_tag,
                  confidence_score |-> Get(web_data, "confidence", Q(9, 10)),
                  brand |-> Get(web_data, "brand", ""),
                  source |-> Get(web_data, "source", "web_search")])

\* a variant of the two acceptance tests that takes whatever the client returned
AcceptsAnyReply(web_data) == web_data # None

\* line 261: web_data and web_data.get('confidence', 0) > 0.8, for web_data
\* whose confidence is a number or absent
EnhanceAccepts(web_data) ==
    web_data # None /\ QGt(Get(web_data, "confidence", Zero), Q(8, 10))

\* may raise TypeError (a confidence or a nutrient that is no number)
enhance_nutrition_with_web_search(rr, existing_calculation, reply) ==
    Bind(Get(rr, "primary_food", ""), LAMBDA name :
    Bind(Get(rr, "estimated_weight", Hundred), LAMBDA estimated_weight :
    Bind(get_web_search_nutrition(name, estimated_weight, reply), LAMBDA web_data :
        IF web_data # None /\ ~IsNumber(Get(web_data, "confidence", Zero)) THEN Raise
        ELSE IF EnhanceAccepts(web_data)
        THEN Bind(WebRecord(web_data, name, estimated_weight, "web_search_enhanced"),
                  LAMBDA record :
             IF record.raised THEN Raise
             ELSE Ret(Update(record.val,
                      [serving_description |->
                          Get(web_data, "serving_description",
                              [fmt |-> "{}g", arg |-> estimated_weight])])))
        ELSE Ret(Update(existing_calculation,
                 [data_source |->
                      Get(existing_calculation, "data_source", "unknown") \o "_web_verified",
                  web_search_attempted |-> TRUE,
                  web_search_success |-> (web_data # None)])))))

-----------------------------------------------------------------------------
(* calorie_calculator.py: CalorieCalculator                                  *)

fast_food_chains ==
    <<"mcdonalds", "mcdonald", "burger king", "kfc", "taco bell", "subway", "pizza hut",
      "dominos", "starbucks", "dunkin", "wendys", "wendy", "chipotle", "five guys",
      "in-n-out", "jack in the box", "carl jr", "hardees", "arbys", "dairy queen", "sonic",
      "papa johns", "little caesars", "popeyes", "chick-fil-a">>

fast_food_items ==
    <<"big mac", "whopper", "quarter pounder", "mcchicken", "baconator",
      "son of baconator", "frappuccino", "latte", "cappuccino">>

branded_keywords ==
    <<"olive garden", "red lobster", "applebees", "chilis", "outback", "ihop", "dennys",
      "panda express", "pf changs", "cheesecake factory", "oreo", "doritos", "lays",
      "pringles", "pepsi", "coca cola", "coke", "snickers", "kit kat", "reeses", "hershey",
      "mars", "twix", "cheerios", "frosted flakes", "lucky charms", "fruit loops",
      "ben jerry", "haagen dazs", "blue bell", "breyers", "lean cuisine", "hungry man",
      "stouffers", "marie callender", "frappuccino", "macchiato", "cappuccino",
      "americano", "energy drink", "red bull", "monster", "rockstar", "brand",
      "restaurant", "chain", "frozen meal", "packaged">>

category_nutrition == <<
    [key |-> "chicken", calories_per_100g |-> Q(165, 1), protein_per_100g |-> Q(31, 1),
     carbs_per_100g |-> Q(0, 1), fat_per_100g |-> Q(36, 10), fiber_per_100g |-> Q(0, 1),
     sugar_per_100g |-> Q(0, 1), sodium_per_100g |-> Q(74, 1000)],
    [key |-> "beef", calories_per_100g |-> Q(250, 1), protein_per_100g |-> Q(26, 1),
     carbs_per_100g |-> Q(0, 1), fat_per_100g |-> Q(15, 1), fiber_per_100g |-> Q(0, 1),
     sugar_per_100g |-> Q(0, 1), sodium_per_100g |-> Q(59, 1000)],
    [key |-> "pork", calories_per_100g |-> Q(242, 1), protein_per_100g |-> Q(27, 1),
     carbs_per_100g |-> Q(0, 1), fat_per_100g |-> Q(14, 1), fiber_per_100g |-> Q(0, 1),
     sugar_per_100g |-> Q(0, 1), sodium_per_100g |-> Q(62, 1000)],
    [key |-> "fish", calories_per_100g |-> Q(206, 1), protein_per_100g |-> Q(22, 1),
     carbs_per_100g |-> Q(0, 1), fat_per_100g |-> Q(12, 1), fiber_per_100g |-> Q(0, 1),
     sugar_per_100g |-> Q(0, 1), sodium_per_100g |-> Q(59, 1000)],
    [key |-> "salmon", calories_per_100g |-> Q(208, 1), protein_per_100g |-> Q(20, 1),
     carbs_per_100g |-> Q(0, 1), fat_per_100g |-> Q(13, 1), fiber_per_100g |-> Q(0, 1),
     sugar_per_100g |-> Q(0, 1), sodium_per_100g |-> Q(54, 1000)],
    [key |-> "rice", calories_per_100g |-> Q(130, 1), protein_per_100g |-> Q(27, 10),
     carbs_per_100g |-> Q(28, 1), fat_per_100g |-> Q(3, 10), fiber_per_100g |-> Q(4, 10),
     sugar_per_100g |-> Q(1, 10), sodium_per_100g |-> Q(1, 1000)],
    [key |-> "pasta", calories_per_100g |-> Q(131, 1), protein_per_100g |-> Q(5, 1),
     carbs_per_100g |-> Q(25, 1), fat_per_100g |-> Q(11, 10), fiber_per_100g |-> Q(18, 10),
     sugar_per_100g |-> Q(6, 10), sodium_per_100g |-> Q(1, 1000)],
    [key |-> "bread", calories_per_100g |-> Q(265, 1), protein_per_100g |-> Q(9, 1),
     carbs_per_100g |-> Q(49, 1), fat_per_100g |-> Q(32, 10), fiber_per_100g |-> Q(27, 10),
     sugar_per_100g |-> Q(5, 1), sodium_per_100g |-> Q(491, 1000)],
    [key |-> "noodles", calories_per_100g |-> Q(138, 1), protein_per_100g |-> Q(45, 10),
     carbs_per_100g |-> Q(25, 1), fat_per_100g |-> Q(22, 10), fiber_per_100g |-> Q(18, 10),
     sugar_per_100g |-> Q(6, 10), sodium_per_100g |-> Q(1, 1000)],
    [key |-> "pizza", calories_per_100g |-> Q(280, 1), protein_per_100g |-> Q(12, 1),
     carbs_per_100g |-> Q(35, 1), fat_per_100g |-> Q(12, 1), fiber_per_100g |-> Q(25, 10),
     sugar_per_100g |-> Q(4, 1), sodium_per_100g |-> Q(64, 100)],
    [key |-> "burger", calories_per_100g |-> Q(320, 1), protein_per_100g |-> Q(18, 1),
     carbs_per_100g |-> Q(28, 1), fat_per_100g |-> Q(18, 1), fiber_per_100g |-> Q(2, 1),
     sugar_per_100g |-> Q(4, 1), sodium_per_100g |-> Q(52, 100)],
    [key |-> "sandwich", calories_per_100g |-> Q(250, 1), protein_per_100g |-> Q(12, 1),
     carbs_per_100g |-> Q(30, 1), fat_per_100g |-> Q(10, 1), fiber_per_100g |-> Q(3, 1),
     sugar_per_100g |-> Q(4, 1), sodium_per_100g |-> Q(38, 100)],
    [key |-> "taco", calories_per_100g |-> Q(220, 1), protein_per_100g |-> Q(11, 1),
     carbs_per_100g |-> Q(20, 1), fat_per_100g |-> Q(12, 1), fiber_per_100g |-> Q(3, 1),
     sugar_per_100g |-> Q(2, 1), sodium_per_100g |-> Q(35, 100)],
    [key |-> "vegetable", calories_per_100g |-> Q(35, 1), protein_per_100g |-> Q(3, 1),
     carbs_per_100g |-> Q(7, 1), fat_per_100g |-> Q(4, 10), fiber_per_100g |-> Q(3, 1),
     sugar_per_100g |-> Q(2, 1), sodium_per_100g |-> Q(4, 100)],
    [key |-> "salad", calories_per_100g |-> Q(20, 1), protein_per_100g |-> Q(15, 10),
     carbs_per_100g |-> Q(4, 1), fat_per_100g |-> Q(2, 10), fiber_per_100g |-> Q(18, 10),
     sugar_per_100g |-> Q(2, 1), sodium_per_100g |-> Q(28, 1000)],
    [key |-> "fruit", calories_per_100g |-> Q(60, 1), protein_per_100g |-> Q(5, 10),
     carbs_per_100g |-> Q(15, 1), fat_per_100g |-> Q(2, 10), fiber_per_100g |-> Q(25, 10),
     sugar_per_100g |-> Q(12, 1), sodium_per_100g |-> Q(1, 1000)] >>

local_food_db == <<
    [key |-> "apple", calories_per_100g |-> Q(52, 1), protein_per_100g |-> Q(3, 10),
     carbs_per_100g |-> Q(14, 1), fat_per_100g |-> Q(2, 10), fiber_per_100g |-> Q(24, 10),
     sugar_per_100g |-> Q(10, 1), sodium_per_100g |-> Q(1, 1000)],
    [key |-> "banana", calories_per_100g |-> Q(89, 1), protein_per_100g |-> Q(11, 10),
     carbs_per_100g |-> Q(23, 1), fat_per_100g |-> Q(3, 10), fiber_per_100g |-> Q(26, 10),
     sugar_per_100g |-> Q(12, 1), sodium_per_100g |-> Q(1, 1000)],
    [key |-> "orange", calories_per_100g |-> Q(47, 1), protein_per_100g |-> Q(9, 10),
     carbs_per_100g |-> Q(12, 1), fat_per_100g |-> Q(1, 10), fiber_per_100g |-> Q(24, 10),
     sugar_per_100g |-> Q(9, 1), sodium_per_100g |-> Q(1, 1000)],
    [key |-> "rice", calories_per_100g |-> Q(130, 1), protein_per_100g |-> Q(27, 10),
     carbs_per_100g |-> Q(28, 1), fat_per_100g |-> Q(3, 10), fiber_per_100g |-> Q(4, 10),
     sugar_per_100g |-> Q(1, 10), sodium_per_100g |-> Q(1, 1000)],
    [key |-> "chicken", calories_per_100g |-> Q(165, 1), protein_per_100g |-> Q(31, 1),
     carbs_per_100g |-> Q(0, 1), fat_per_100g |-> Q(36, 10), fiber_per_100g |-> Q(0, 1),
     sugar_per_100g |-> Q(0, 1), sodium_per_100g |-> Q(74, 1000)],
    [key |-> "chicken breast", calories_per_100g |-> Q(165, 1), protein_per_100g |-> Q(31, 1),
     carbs_per_100g |-> Q(0, 1), fat_per_100g |-> Q(36, 10), fiber_per_100g |-> Q(0, 1),
     sugar_per_100g |-> Q(0, 1), sodium_per_100g |-> Q(74, 1000)],
    [key |-> "beef", calories_per_100g |-> Q(250, 1), protein_per_100g |-> Q(26, 1),
     carbs_per_100g |-> Q(0, 1), fat_per_100g |-> Q(15, 1), fiber_per_100g |-> Q(0, 1),
     sugar_per_100g |-> Q(0, 1), sodium_per_100g |-> Q(59, 1000)],
    [key |-> "pork", calories_per_100g |-> Q(242, 1), protein_per_100g |-> Q(27, 1),
     carbs_per_100g |-> Q(0, 1), fat_per_100g |-> Q(14, 1), fiber_per_100g |-> Q(0, 1),
     sugar_per_100g |-> Q(0, 1), sodium_per_100g |-> Q(62, 1000)],
    [key |-> "fish", calories_per_100g |-> Q(206, 1), protein_per_100g |-> Q(22, 1),
     carbs_per_100g |-> Q(0, 1), fat_per_100g |-> Q(12, 1), fiber_per_100g |-> Q(0, 1),
     sugar_per_100g |-> Q(0, 1), sodium_per_100g |-> Q(59, 1000)],
    [key |-> "salmon", calories_per_100g |-> Q(208, 1), protein_per_100g |-> Q(20, 1),
     carbs_per_100g |-> Q(0, 1), fat_per_100g |-> Q(13, 1), fiber_per_100g |-> Q(0, 1),
     sugar_per_100g |-> Q(0, 1), sodium_per_100g |-> Q(54, 1000)],
    [key |-> "bread", calories_per_100g |-> Q(265, 1), protein_per_100g |-> Q(9, 1),
     carbs_per_100g |-> Q(49, 1), fat_per_100g |-> Q(32, 10), fiber_per_100g |-> Q(27, 10),
     sugar_per_100g |-> Q(5, 1), sodium_per_100g |-> Q(491, 1000)],
    [key |-> "pasta", calories_per_100g |-> Q(131, 1), protein_per_100g |-> Q(5, 1),
     carbs_per_100g |-> Q(25, 1), fat_per_100g |-> Q(11, 10), fiber_per_100g |-> Q(18, 10),
     sugar_per_100g |-> Q(6, 10), sodium_per_100g |-> Q(1, 1000)],
    [key |-> "egg", calories_per_100g |-> Q(155, 1), protein_per_100g |-> Q(13, 1),
     carbs_per_100g |-> Q(11, 10), fat_per_100g |-> Q(11, 1), fiber_per_100g |-> Q(0, 1),
     sugar_per_100g |-> Q(11, 10), sodium_per_100g |-> Q(124, 1000)],
    [key |-> "milk", calories_per_100g |-> Q(61, 1), protein_per_100g |-> Q(32, 10),
     carbs_per_100g |-> Q(48, 10), fat_per_100g |-> Q(33, 10), fiber_per_100g |-> Q(0, 1),
     sugar_per_100g |-> Q(48, 10), sodium_per_100g |-> Q(44, 1000)],
    [key |-> "cheese", calories_per_100g |-> Q(402, 1), protein_per_100g |-> Q(25, 1),
     carbs_per_100g |-> Q(13, 10), fat_per_100g |-> Q(33, 1), fiber_per_100g |-> Q(0, 1),
     sugar_per_100g |-> Q(5, 10), sodium_per_100g |-> Q(621, 1000)],
    [key |-> "yogurt", calories_per_100g |-> Q(59, 1), protein_per_100g |-> Q(10, 1),
     carbs_per_100g |-> Q(36, 10), fat_per_100g |-> Q(4, 10), fiber_per_100g |-> Q(0, 1),
     sugar_per_100g |-> Q(32, 10), sodium_per_100g |-> Q(46, 1000)],
    [key |-> "broccoli", calories_per_100g |-> Q(34, 1), protein_per_100g |-> Q(28, 10),
     carbs_per_100g |-> Q(7, 1), fat_per_100g |-> Q(4, 10), fiber_per_100g |-> Q(26, 10),
     sugar_per_100g |-> Q(15, 10), sodium_per_100g |-> Q(33, 1000)],
    [key |-> "carrots", calories_per_100g |-> Q(41, 1), protein_per_100g |-> Q(9, 10),
     carbs_per_100g |-> Q(10, 1), fat_per_100g |-> Q(2, 10), fiber_per_100g |-> Q(28, 10),
     sugar_per_100g |-> Q(47, 10), sodium_per_100g |-> Q(69, 1000)],
    [key |-> "spinach", calories_per_100g |-> Q(23, 1), protein_per_100g |-> Q(29, 10),
     carbs_per_100g |-> Q(36, 10), fat_per_100g |-> Q(4, 10), fiber_per_100g |-> Q(22, 10),
     sugar_per_100g |-> Q(4, 10), sodium_per_100g |-> Q(79, 1000)],
    [key |-> "tomato", calories_per_100g |-> Q(18, 1), protein_per_100g |-> Q(9, 10),
     carbs_per_100g |-> Q(39, 10), fat_per_100g |-> Q(2, 10), fiber_per_100g |-> Q(12, 10),
     sugar_per_100g |-> Q(26, 10), sodium_per_100g |-> Q(5, 1000)],
    [key |-> "potato", calories_per_100g |-> Q(77, 1), protein_per_100g |-> Q(2, 1),
     carbs_per_100g |-> Q(17, 1), fat_per_100g |-> Q(1, 10), fiber_per_100g |-> Q(22, 10),
     sugar_per_100g |-> Q(8, 10), sodium_per_100g |-> Q(6, 1000)],
    [key |-> "pizza", calories_per_100g |-> Q(266, 1), protein_per_100g |-> Q(11, 1),
     carbs_per_100g |-> Q(33, 1), fat_per_100g |-> Q(10, 1), fiber_per_100g |-> Q(23, 10),
     sugar_per_100g |-> Q(36, 10), sodium_per_100g |-> Q(598, 1000)],
    [key |-> "burger", calories_per_100g |-> Q(295, 1), protein_per_100g |-> Q(17, 1),
     carbs_per_100g |-> Q(25, 1), fat_per_100g |-> Q(15, 1), fiber_per_100g |-> Q(2, 1),
     sugar_per_100g |-> Q(4, 1), sodium_per_100g |-> Q(497, 1000)],
    [key |-> "sandwich", calories_per_100g |-> Q(250, 1), protein_per_100g |-> Q(12, 1),
     carbs_per_100g |-> Q(30, 1), fat_per_100g |-> Q(10, 1), fiber_per_100g |-> Q(3, 1),
     sugar_per_100g |-> Q(4, 1), sodium_per_100g |-> Q(38, 100)],
    [key |-> "salad", calories_per_100g |-> Q(20, 1), protein_per_100g |-> Q(15, 10),
     carbs_per_100g |-> Q(4, 1), fat_per_100g |-> Q(2, 10), fiber_per_100g |-> Q(18, 10),
     sugar_per_100g |-> Q(2, 1), sodium_per_100g |-> Q(28, 1000)] >>
\* self.usda_api_key is a non-empty string
usda_api_key_set == TRUE

_is_fast_food_item(name) ==
    LET food_lower == Lower(name)
    IN  AnyIn(fast_food_chains, food_lower) \/ AnyIn(fast_food_items, food_lower)

_is_branded_or_restaurant_item(name) == AnyIn(branded_keywords, Lower(name))

NutritionalInfo(calories, protein, carbs, fat, fiber, sugar, sodium) ==
    [calories |-> calories, protein |-> protein, carbs |-> carbs, fat |-> fat,
     fiber |-> fiber, sugar |-> sugar, sodium |-> sodium]

(* The government client.  What the service does is an input of the model:  *)
(*   [kind |-> "search_failed"]  the search request raised (timeout, no      *)
(*                               connection, non-2xx, a body that is no JSON)*)
(*   [kind |-> "no_foods"]       the search found nothing                    *)
(*   [kind |-> "detail_failed"]  the detail request raised                   *)
(*   [kind |-> "detail", foodNutrients |-> <<[name, unitName, amount], ..>>] *)
(* The candidate scoring of lines 220-252 only selects the id the detail     *)
(* request asks for, and the answer to that request is the input here.       *)
NutrientKey(nutrient) ==
    IF nutrient.name = "Energy"
    THEN "Energy (" \o nutrient.unitName \o ")"
    ELSE nutrient.name

\* the dict `nutrients` of lines 265-276 has this key
HasNutrient(foodNutrients, key) ==
    \E i \in 1..Len(foodNutrients) :
        NutrientKey(foodNutrients[i]) = key /\ IsNumber(foodNutrients[i].amount)

\* nutrients.get(key, 0): the last numeric amount stored under the key
NutrientAmount(foodNutrients, key) ==
    IF HasNutrient(foodNutrients, key)
    THEN foodNutrients[
             CHOOSE i \in 1..Len(foodNutrients) :
                 /\ NutrientKey(foodNutrients[i]) = key
                 /\ IsNumber(foodNutrients[i].amount)
                 /\ \A j \in (i + 1)..Len(foodNutrients) :
                        ~(NutrientKey(foodNutrients[j]) = key
                          /\ IsNumber(foodNutrients[j].amount))].amount
    ELSE Zero

\* may raise
_get_usda_nutrition(name, weight_grams, reply) ==
    IF reply.kind # "detail" THEN Raise
    ELSE LET fn == reply.foodNutrients
             scale_factor == QDiv(weight_grams, Hundred)
             calories ==
                 IF HasNutrient(fn, "Energy (kcal)") THEN NutrientAmount(fn, "Energy (kcal)")
                 ELSE IF HasNutrient(fn, "Energy (kJ)")
                 THEN QDiv(NutrientAmount(fn, "Energy (kJ)"), Q(4184, 1000))
                 ELSE NutrientAmount(fn, "Energy")
         IN  Ret(NutritionalInfo(
                 QMul(calories, scale_factor),
                 QMul(NutrientAmount(fn, "Protein"), scale_factor),
                 QMul(NutrientAmount(fn, "Carbohydrate, by difference"), scale_factor),
                 QMul(NutrientAmount(fn, "Total lipid (fat)"), scale_factor),
                 QMul(NutrientAmount(fn, "Fiber, total dietary"), scale_factor),
                 QMul(NutrientAmount(fn, "Sugars, total including NLEA"), scale_factor),
                 QDiv(QMul(NutrientAmount(fn, "Sodium, Na"), scale_factor), Thousand)))

important_words ==
    {"chicken", "beef", "pork", "fish", "salmon", "pizza", "burger", "rice", "pasta"}

Max(a, b) == IF a >= b THEN a ELSE b

\* set(food_key.split()) of every row of local_food_db
local_key_words == [i \in 1..Len(local_food_db) |-> Words(local_food_db[i].key)]

\* the score of row i of local_food_db for a lowercased name (lines 316-336)
LocalScore(food_name_lower, food_words, i) ==
    Bind(local_food_db[i].key, LAMBDA food_key :
        IF food_name_lower = food_key THEN Hundred
        ELSE IF In(food_name_lower, food_key) \/ In(food_key, food_name_lower)
        THEN Q(80, 1)
        ELSE
        Bind(local_key_words[i], LAMBDA key_words :
        Bind(food_words \cap key_words, LAMBDA common_words :
            IF common_words # {}
            THEN Bind(QMul(Q(Cardinality(common_words),
                             Max(Cardinality(food_words), Cardinality(key_words))),
                           Q(50, 1)), LAMBDA score :
                 IF common_words \cap important_words # {}
                 THEN QAdd(score, Q(20, 1))
                 ELSE score)
            ELSE Zero)))

RECURSIVE TakesLastOfEqualScores(_, _, _, _, _)
\* a variant of the loop that replaces the best row on an equal score
TakesLastOfEqualScores(i, food_name_lower, food_words, best_match, best_score) ==
    IF i > Len(local_food_db) THEN [best_match |-> best_match, best_score |-> best_score]
    ELSE Bind(LocalScore(food_name_lower, food_words, i), LAMBDA score :
         IF QGe(score, best_score)
         THEN TakesLastOfEqualScores(i + 1, food_name_lower, food_words,
                                     local_food_db[i], score)
         ELSE TakesLastOfEqualScores(i + 1, food_name_lower, food_words,
                                     best_match, best_score))

RECURSIVE BestLocalMatch(_, _, _, _, _)
\* the loop of lines 315-340 from row i on: [best_match, best_score]
BestLocalMatch(i, food_name_lower, food_words, best_match, best_score) ==
    IF i > Len(local_food_db) THEN [best_match |-> best_match, best_score |-> best_score]
    ELSE Bind(LocalScore(food_name_lower, food_words, i), LAMBDA score :
         IF QGt(score, best_score)
         THEN BestLocalMatch(i + 1, food_name_lower, food_words, local_food_db[i], score)
         ELSE BestLocalMatch(i + 1, food_name_lower, food_words, best_match, best_score))

CategoryRow(key) ==
    category_nutrition[FirstIndex(category_nutrition, LAMBDA c : c.key = key)]

\* returns the row, or None
_match_food_category(food_name_lower) ==
    Bind(FirstIndex(category_nutrition, LAMBDA c : In(c.key, food_name_lower)),
         LAMBDA first :
        IF first # 0 THEN category_nutrition[first]
        ELSE IF AnyIn(<<"meat", "steak", "roast">>, food_name_lower)
        THEN CategoryRow("beef")
        ELSE IF AnyIn(<<"vegetable", "veggie", "green">>, food_name_lower)
        THEN CategoryRow("vegetable")
        ELSE IF AnyIn(<<"fruit", "berry", "apple", "orange">>, food_name_lower)
        THEN CategoryRow("fruit")
        ELSE None)

\* Default fallback nutrition (average food item)
default_nutrition ==
    [calories_per_100g |-> Q(150, 1), protein_per_100g |-> Q(5, 1),
     carbs_per_100g |-> Q(20, 1), fat_per_100g |-> Q(5, 1), fiber_per_100g |-> Q(2, 1),
     sugar_per_100g |-> Q(8, 1), sodium_per_100g |-> Q(3, 10)]

\* a lookup that takes the local match only when it scored more than 10
MatchAboveTen(loop, food_name_lower) ==
    IF loop.best_match # None /\ QGt(loop.best_score, Q(10, 1))
    THEN loop.best_match
    ELSE Bind(_match_food_category(food_name_lower), LAMBDA matched :
         IF matched = None THEN default_nutrition ELSE matched)

\* lines 342-356: the local match when it scored at least 10, else the
\* category match, else the default row
MatchOrDefault(loop, food_name_lower) ==
    IF loop.best_match # None /\ QGe(loop.best_score, Q(10, 1))
    THEN loop.best_match
    ELSE Bind(_match_food_category(food_name_lower), LAMBDA matched :
         IF matched = None THEN default_nutrition ELSE matched)

\* the row _get_local_nutrition scales: local match, category match or default
LocalBestMatch(name) ==
    Bind(Lower(name), LAMBDA food_name_lower :
        MatchOrDefault(
            BestLocalMatch(1, food_name_lower, Words(food_name_lower), None, Zero),
            food_name_lower))

_get_local_nutrition(name, weight_grams) ==
    Bind(LocalBestMatch(name), LAMBDA best_match :
    Bind(QDiv(weight_grams, Hundred), LAMBDA scale_factor :
        NutritionalInfo(
            QMul(best_match.calories_per_100g, scale_factor),
            QMul(Get(best_match, "protein_per_100g", Zero), scale_factor),
            QMul(Get(best_match, "carbs_per_100g", Zero), scale_factor),
            QMul(Get(best_match, "fat_per_100g", Zero), scale_factor),
            QMul(Get(best_match, "fiber_per_100g", Zero), scale_factor),
            QMul(Get(best_match, "sugar_per_100g", Zero), scale_factor),
            QMul(Get(best_match, "sodium_per_100g", Zero), scale_factor))))

\* [info, calls]: the USDA API first, the local database when it raised
_get_nutrition_info(name, weight_grams, usda) ==
    Bind(_get_usda_nutrition(name, weight_grams, usda), LAMBDA fromUsda :
        IF usda_api_key_set /\ ~fromUsda.raised
        THEN [info |-> fromUsda.val, calls |-> <<"usda">>]
        ELSE [info |-> _get_local_nutrition(name, weight_grams),
              calls |-> IF usda_api_key_set THEN <<"usda">> ELSE <<>>])

RECURSIVE SumNutrition(_, _, _)
\* the loop of lines 381-389 over all_foods[i..]
SumNutrition(i, all_foods, weight_per_food) ==
    IF i > Len(all_foods) THEN NutritionalInfo(Zero, Zero, Zero, Zero, Zero, Zero, Zero)
    ELSE Bind(_get_local_nutrition(all_foods[i], weight_per_food), LAMBDA f :
         Bind(SumNutrition(i + 1, all_foods, weight_per_food), LAMBDA rest :
             NutritionalInfo(QAdd(f.calories, rest.calories), QAdd(f.protein, rest.protein),
                             QAdd(f.carbs, rest.carbs), QAdd(f.fat, rest.fat),
                             QAdd(f.fiber, rest.fiber), QAdd(f.sugar, rest.sugar),
                             QAdd(f.sodium, rest.sodium))))

\* the sub-weight every food of a multi-food detection is given (line 377)
weight_per_food(all_foods, total) == QDiv(total, Q(Len(all_foods), 1))

_calculate_multi_food_nutrition(all_foods, total) ==
    IF Len(all_foods) <= 1
    THEN _get_local_nutrition(IF Len(all_foods) > 0 THEN all_foods[1] ELSE "unknown", total)
    ELSE SumNutrition(1, all_foods, weight_per_food(all_foods, total))

_get_fallback_nutrition(rr) ==
    LET estimated_weight == Get(rr, "estimated_weight", Hundred)
    IN  [food_name |-> Get(rr, "primary_food", "Unknown food"),
         weight_grams |-> estimated_weight,
         total_calories |-> QMul(estimated_weight, Q(15, 10)),
         protein |-> QMul(estimated_weight, Q(5, 100)),
         carbs |-> QMul(estimated_weight, Q(2, 10)),
         fat |-> QMul(estimated_weight, Q(5, 100)),
         fiber |-> QMul(estimated_weight, Q(2, 100)),
         sugar |-> QMul(estimated_weight, Q(8, 100)),
         sodium |-> QMul(estimated_weight, Q(3, 1000)),
         data_source |-> "fallback_estimate"]

Posted(name) == IF WebPosts(name) > 0 THEN <<"web">> ELSE <<>>

\* Step 1 (lines 65-86), for a name the enhanced database knows: [raised, val, calls]
EnhancedStep(rr, name, enhanced_result, web) ==
    Bind([enhanced_result EXCEPT !.data_source = "enhanced_database"], LAMBDA found :
        IF _is_fast_food_item(name)
        THEN Bind(enhance_nutrition_with_web_search(rr, found, web), LAMBDA web_enhanced :
             IF ~web_enhanced.raised /\ web_enhanced.val.data_source = "web_search_enhanced"
             THEN [raised |-> FALSE, val |-> web_enhanced.val, calls |-> Posted(name)]
             ELSE [raised |-> FALSE, val |-> found, calls |-> Posted(name)])
        ELSE [raised |-> FALSE, val |-> found, calls |-> <<>>])

\* Step 3 (lines 111-133): [raised, val, calls]
StandardStep(name, estimated_weight, all_foods, usda, before) ==
    Bind(_get_nutrition_info(name, estimated_weight, usda), LAMBDA single :
    Bind(IF Len(all_foods) > 1
         THEN _calculate_multi_food_nutrition(all_foods, estimated_weight)
         ELSE single.info, LAMBDA nutrition_info :
        [raised |-> FALSE,
         val |-> [food_name |-> name,
                  weight_grams |-> estimated_weight,
                  total_calories |-> Round(nutrition_info.calories, 1),
                  protein |-> Round(nutrition_info.protein, 1),
                  carbs |-> Round(nutrition_info.carbs, 1),
                  fat |-> Round(nutrition_info.fat, 1),
                  fiber |-> Round(nutrition_info.fiber, 1),
                  sugar |-> Round(nutrition_info.sugar, 1),
                  sodium |-> Round(nutrition_info.sodium, 1),
                  data_source |-> "calculated"],
         calls |-> before \o single.calls]))

\* a variant of DirectAccepts that also takes a confidence of exactly 0.7
AcceptsFromThreshold(web_data) ==
    web_data # None /\ QGe(Get(web_data, "confidence", Zero), Q(7, 10))

\* line 91: web_data and web_data.get('confidence', 0) > 0.7, for web_data
\* whose confidence is a number or absent
DirectAccepts(web_data) ==
    web_data # None /\ QGt(Get(web_data, "confidence", Zero), Q(7, 10))

\* Step 2 (lines 88-109) and what follows it: [raised, val, calls]
WebStep(name, estimated_weight, all_foods, web, usda) ==
    IF _is_fast_food_item(name) \/ _is_branded_or_restaurant_item(name)
    THEN Bind(get_web_search_nutrition(name, estimated_weight, web), LAMBDA web_data :
         IF web_data # None /\ ~IsNumber(Get(web_data, "confidence", Zero))
         THEN [raised |-> TRUE, val |-> None, calls |-> Posted(name)]
         ELSE IF DirectAccepts(web_data)
         THEN Bind(WebRecord(web_data, name, estimated_weight, "web_search_direct"),
                   LAMBDA record :
              [raised |-> record.raised, val |-> record.val, calls |-> Posted(name)])
         ELSE StandardStep(name, estimated_weight, all_foods, usda, Posted(name)))
    ELSE StandardStep(name, estimated_weight, all_foods, usda, <<>>)

\* the try block of calculate_calories (lines 59-133): [raised, val, calls]
CalculateCaloriesTry(rr, web, usda) ==
    IF "primary_food" \notin DOMAIN rr
    THEN [raised |-> TRUE, val |-> None, calls |-> <<>>]
    ELSE Bind(rr.primary_food, LAMBDA name :
         Bind(Get(rr, "estimated_weight", Hundred), LAMBDA estimated_weight :
         Bind(calculate_accurate_calories(name, estimated_weight), LAMBDA enhanced_result :
             IF enhanced_result # None
             THEN EnhancedStep(rr, name, enhanced_result, web)
             ELSE WebStep(name, estimated_weight, Get(rr, "all_foods", <<name>>),
                          web, usda))))

\* calculate_calories without its except clause
PropagateException(rr, web, usda) == CalculateCaloriesTry(rr, web, usda)

\* [raised, val, calls]: what calculate_calories returns, whether it raised
\* instead, and the clients it consulted.  The modules of lines 14-21 are
\* taken to have been imported.
calculate_calories(rr, web, usda) ==
    Bind(CalculateCaloriesTry(rr, web, usda), LAMBDA try :
        IF try.raised
        THEN [raised |-> FALSE, val |-> _get_fallback_nutrition(rr), calls |-> try.calls]
        ELSE try)

-----------------------------------------------------------------------------
(* Inputs of the resolver: what the recognizer hands over and what the two   *)
(* services answer.                                                          *)

\* the recognizer reports a whole number of grams, at least 1: multiples of
\* 50 g, a weight whose twentieth is not a multiple of 0.1 g, and the typical
\* weight of a Big Mac
MaxWeightSteps == 3

Weights ==
    {Int2Q(50 * k) : k \in 1..MaxWeightSteps} \cup {Int2Q(101), Int2Q(222)}

\* the last two share the word 'breast' with the local row 'chicken breast',
\* one word of five (a score of 10) and one of six (a score below 10), and
\* hold the category keyword 'steak'
ResolveLabels ==
    {"Big Mac", "Mcdonalds Big Mac", "Apple", "", "Starbucks Latte", "Cappuccino",
     "Restaurant Steak", "Grilled Salmon", "Unknown",
     "Duck Breast Steak On Toast", "Duck Breast And Steak On Toast"}

\* labels only the local table answers: a row named exactly (after the row
\* 'chicken', which the label holds), and two labels that hold two row names
\* each, in the order of the table and against it
LocalLabels == {"Chicken Breast", "Egg Salad Mix", "Potato Tomato"}

\* recognition results: the primary label, a positive weight, and the list of
\* all detected foods (absent, or the label with a second food, or twice)
RecognitionResults ==
    { [primary_food |-> l, estimated_weight |-> w] : l \in ResolveLabels, w \in Weights }
    \cup
    { [primary_food |-> l, estimated_weight |-> w, all_foods |-> <<l, other>>] :
        l \in ResolveLabels, w \in Weights, other \in {"Rice", "Mystery Dish"} }
    \cup
    { [primary_food |-> l, estimated_weight |-> w, all_foods |-> <<l, l>>] :
        l \in {"Unknown", "Apple"}, w \in Weights }
    \cup
    { [primary_food |-> l, all_foods |-> <<l>>] : l \in ResolveLabels }
    \cup
    { [primary_food |-> l, estimated_weight |-> Hundred] : l \in LocalLabels }

Completion(dict) == [kind |-> "response", status_code |-> 200,
                     content |-> [start |-> 0, end |-> 2, loads |-> dict]]

\* a reply in the format _search_fast_food_nutrition asks for
MenuItem == [food_name |-> "Big Mac", brand |-> "McDonald's",
             calories |-> Q(550, 1), protein |-> Q(25, 1), carbs |-> Q(45, 1),
             fat |-> Q(30, 1), fiber |-> Q(3, 1), sugar |-> Q(9, 1),
             sodium |-> Q(1010, 1), serving_weight_grams |-> Q(200, 1),
             serving_description |-> "1 sandwich", source |-> "Official website"]

\* a reply in the format _search_general_nutrition asks for
Per100g == [food_name |-> "big mac", calories_per_100g |-> Q(240, 1),
            protein_per_100g |-> Q(12, 1), carbs_per_100g |-> Q(30, 1),
            fat_per_100g |-> Q(10, 1), fiber_per_100g |-> Q(2, 1),
            sugar_per_100g |-> Q(5, 1), sodium_per_100g |-> Q(500, 1),
            source |-> "USDA"]

Without(dict, key) == [k \in DOMAIN dict \ {key} |-> dict[k]]

WebReplies ==
    { [kind |-> "exception"],
      [kind |-> "response", status_code |-> 500,
       content |-> [start |-> -1, end |-> 0, loads |-> JSONDecodeError]],
      [kind |-> "response", status_code |-> 200,
       content |-> [start |-> -1, end |-> 0, loads |-> JSONDecodeError]],
      [kind |-> "response", status_code |-> 200,
       content |-> [start |-> 3, end |-> 9, loads |-> JSONDecodeError]],
      Completion([error |-> "Could not find reliable nutrition data"]),
      Completion(EmptyDict),
      Completion(MenuItem) }
    \cup { Completion(Update(MenuItem, [confidence |-> c])) :
             c \in {Q(95, 100), Q(75, 100), Q(7, 10), WrongType} }
    \cup { Completion(Update(Without(MenuItem, "serving_weight_grams"),
                             [confidence |-> Q(9, 10), calories |-> v])) :
             v \in {WrongType, Q(550, 1)} }
    \cup { Completion(Update(MenuItem, [confidence |-> Q(9, 10),
                                        serving_weight_grams |-> v])) :
             v \in {Zero, WrongType} }
    \cup { Completion(Update(Without(MenuItem, "calories"), [confidence |-> Q(9, 10)])) }
    \cup { Completion(Per100g) }
    \cup { Completion(Update(Per100g, [confidence |-> c])) :
             c \in {Q(9, 10), Q(8, 10), WrongType} }
    \cup { Completion(Update(Per100g, [confidence |-> Q(9, 10),
                                       calories_per_100g |-> WrongType])) }

Nutrient(name, unitName, amount) == [name |-> name, unitName |-> unitName, amount |-> amount]

UsdaReplies ==
    { [kind |-> "search_failed"], [kind |-> "no_foods"], [kind |-> "detail_failed"],
      [kind |-> "detail",
       foodNutrients |-> <<Nutrient("Energy", "kJ", Q(218, 1)),
                           Nutrient("Energy", "kcal", Q(52, 1)),
                           Nutrient("Protein", "g", Q(26, 100)),
                           Nutrient("Carbohydrate, by difference", "g", Q(1381, 100)),
                           Nutrient("Total lipid (fat)", "g", Q(17, 100)),
                           Nutrient("Sodium, Na", "mg", Q(1, 1))>>],
      [kind |-> "detail",
       foodNutrients |-> <<Nutrient("Energy", "kJ", Q(1046, 1)),
                           Nutrient("Protein", "g", None),
                           Nutrient("Total lipid (fat)", "g", WrongType)>>] }

-----------------------------------------------------------------------------
(* The resolver specification: one call of calculate_calories per behaviour *)

InitResolve ==
    /\ pc = "start"
    /\ recognition_result \in RecognitionResults
    /\ web_reply \in WebReplies
    /\ usda_reply \in UsdaReplies
    /\ calorie_result = Unset
    /\ calls = <<>>
    /\ foods = <<>> /\ total_weight = Zero /\ distribution = Unset
    /\ food_name = "" /\ category = ""
    /\ user_feedback = <<>> /\ analysis_result = Unset
    /\ current_user = 0 /\ adjusted = Unset
    /\ food_entries = <<>> /\ upload_estimates = <<>> /\ correction_estimates = <<>>
    /\ NoImages

CalculateCalories ==
    /\ pc = "start"
    /\ \E out \in {calculate_calories(recognition_result, web_reply, usda_reply)} :
           /\ calorie_result' = [raised |-> out.raised, val |-> out.val]
           /\ calls' = out.calls
    /\ pc' = "done"
    /\ UNCHANGED <<recognition_result, web_reply, usda_reply>>
    /\ UNCHANGED <<distributionVars, classifyVars, learningVars, cleanupVars>>

NextResolve == CalculateCalories

SpecResolve == InitResolve /\ [][NextResolve]_vars


-----------------------------------------------------------------------------
(* Properties of the resolver *)

primary_label == recognition_result.primary_food
requested_weight == Get(recognition_result, "estimated_weight", Hundred)
returned == pc = "done"
record == calorie_result.val
Consulted(client) == \E i \in 1..Len(calls) : calls[i] = client

\* the row the brand lookup finds for the label, or None
brand_entry == get_enhanced_nutrition_data(primary_label)
\* the record built from that row at the requested weight
brand_record == calculate_accurate_calories(primary_label, requested_weight)

\* what the inference client's reply parses to, or None
reply_json ==
    IF web_reply.kind = "response" /\ web_reply.status_code = 200
    THEN _parse_nutrition_json(web_reply.content)
    ELSE None
\* the confidence the reply reports, or None when it reports none
reported_confidence == Get(reply_json, "confidence", None)
ConfidenceAbove(threshold) ==
    IsNumber(reported_confidence) /\ QGt(reported_confidence, threshold)
\* the fields of a reply that are read as numbers
NumericReplyFields ==
    {"confidence", "serving_weight_grams", "calories", "protein", "carbs", "fat",
     "fiber", "sugar", "sodium", "calories_per_100g", "protein_per_100g",
     "carbs_per_100g", "fat_per_100g", "fiber_per_100g", "sugar_per_100g",
     "sodium_per_100g"}
ReplyWronglyTyped ==
    \E k \in DOMAIN reply_json \cap NumericReplyFields : reply_json[k] = WrongType

FromInference == record.data_source \in {"web_search_direct", "web_search_enhanced"}

\* C1: for every recognition input with a primary label and a numeric weight
\* and every outcome of the two clients, calculate_calories returns a
\* nutrition record (numeric calories, protein, carbs, fat and weight, and a
\* data_source) and never raises to its caller.
C1_AlwaysReturnsRecord ==
    returned =>
        /\ ~calorie_result.raised
        /\ {"total_calories", "protein", "carbs", "fat", "weight_grams", "data_source"}
               \subseteq DOMAIN record
        /\ \A f \in {"total_calories", "protein", "carbs", "fat", "weight_grams"} :
               IsNumber(record[f])

\* an exception inside the cascade was absorbed and the flat fallback returned
C1_Witness ==
    /\ returned
    /\ ~calorie_result.raised
    /\ record.data_source = "fallback_estimate"
    /\ Consulted("web") /\ ReplyWronglyTyped

C4_WeightIsRequestedWeight ==
    (returned /\ QGt(requested_weight, Zero)) => record.weight_grams = requested_weight

\* an accepted reply that reported a serving weight other than the requested
\* weight
C4_Witness ==
    /\ returned
    /\ FromInference
    /\ IsNumber(Get(reply_json, "serving_weight_grams", None))
    /\ reply_json.serving_weight_grams # requested_weight
    /\ record.weight_grams = requested_weight

\* the labels whose local and category lookups decide the record
looked_up_locally ==
    LET all_foods == Get(recognition_result, "all_foods", <<primary_label>>)
    IN  IF Len(all_foods) > 1 THEN all_foods ELSE <<primary_label>>

\* the brand lookup, both clients, lookupLocal and lookupCategory all miss
AllMiss ==
    /\ brand_entry = None
    /\ ~FromInference
    /\ usda_reply.kind # "detail"
    /\ \A i \in 1..Len(looked_up_locally) :
           LocalBestMatch(looked_up_locally[i]) = default_nutrition

\* r is x rounded to k decimals: a multiple of 10^-k at most half of 10^-k
\* away from x
IsRounded(r, x, k) ==
    /\ Pow10(k) % r.d = 0
    /\ QLe(QAbs(QSub(r, x)), Q(1, 2 * Pow10(k)))

FlatValues(w) ==
    [total_calories |-> QMul(Q(15, 10), w), protein |-> QMul(Q(5, 100), w),
     carbs |-> QMul(Q(2, 10), w), fat |-> QMul(Q(5, 100), w)]

Values(r) ==
    [total_calories |-> r.total_calories, protein |-> r.protein,
     carbs |-> r.carbs, fat |-> r.fat]

\* C5 as stated: when every lookup and client misses, the record for weight w
\* is calories 1.5w, protein 0.05w, carbs 0.2w, fat 0.05w, tagged
\* fallback_estimate.
C5_FlatFallbackTagged ==
    (returned /\ AllMiss) =>
        /\ Values(record) = FlatValues(requested_weight)
        /\ record.data_source = "fallback_estimate"

\* C5, amended: when every lookup and client misses, the record holds 1.5w,
\* 0.05w, 0.2w and 0.05w rounded to one decimal and is tagged calculated;
\* the tag fallback_estimate, with the four values unrounded, is returned
\* only when the cascade raised, which here is when the inference client's
\* reply held a wrongly typed field.
C5_AllMissIsCalculated ==
    (returned /\ AllMiss) =>
        IF Consulted("web") /\ ReplyWronglyTyped /\ record.data_source # "calculated"
        THEN /\ record.data_source = "fallback_estimate"
             /\ Values(record) = FlatValues(requested_weight)
        ELSE /\ record.data_source = "calculated"
             /\ \A f \in DOMAIN FlatValues(requested_weight) :
                    IsRounded(record[f], FlatValues(requested_weight)[f], 1)

\* label 'Unknown' at 101 g with nothing found: 151.5 kcal tagged calculated,
\* protein 5.0 where 0.05w is 5.05
C5_Witness ==
    /\ returned
    /\ AllMiss
    /\ record.data_source = "calculated"
    /\ requested_weight = Int2Q(101)
    /\ record.protein = Q(5, 1)
    /\ record.total_calories = Q(1515, 10)

\* C6: a record sourced from the inference client (web_search_direct or
\* web_search_enhanced) is returned only if the reply reported a confidence
\* strictly above 0.7; a reply with a confidence of at most 0.7, or with none,
\* is discarded and the record comes from the next source of the cascade.
C6_InferenceNeedsConfidence ==
    returned =>
        /\ FromInference => ConfidenceAbove(Q(7, 10))
        /\ (reported_confidence = None \/ (IsNumber(reported_confidence)
                                            /\ QLe(reported_confidence, Q(7, 10))))
           => record.data_source \in {"enhanced_database", "calculated"}

\* a reply that reported confidence 0.7 exactly was received for a label sent
\* to the inference client first, and the record came from the next source
C6_Witness ==
    /\ returned
    /\ calls = <<"web", "usda">>
    /\ reply_json # None /\ "error" \notin DOMAIN reply_json
    /\ reported_confidence = Q(7, 10)
    /\ record.data_source = "calculated"


-----------------------------------------------------------------------------
(* hyper_accurate_calculator.py: HyperAccurateCalculator, the weight          *)
(* distribution of a multi-item detection.                                    *)

main_dishes ==
    <<"rice", "pasta", "potato", "bread", "meat", "chicken", "beef", "fish">>

vegetables ==
    <<"broccoli", "carrots", "spinach", "lettuce", "tomato", "onion">>

sauces ==
    <<"sauce", "salsa", "dressing", "gravy">>

\* the branch of the if/elif chain of lines 280-287 and 298-305 a food takes
DistributionGroup(food) ==
    LET food_lower == Lower(food)
    IN  IF AnyIn(main_dishes, food_lower) THEN "main"
        ELSE IF AnyIn(vegetables, food_lower) THEN "vegetable"
        ELSE IF AnyIn(sauces, food_lower) THEN "sauce"
        ELSE "default"

CountGroup(foods_, group) ==
    Cardinality({i \in 1..Len(foods_) : DistributionGroup(foods_[i]) = group})

\* the dict returned for a list of at least one food: label -> sub-weight.
\* A label that occurs twice is one key of the dict.
_estimate_weight_distribution(foods_, total) ==
    LET main_weight == QAdd(Int2Q(CountGroup(foods_, "main")),
                            QMul(Int2Q(CountGroup(foods_, "default")), Q(5, 10)))
        veggie_weight == Int2Q(CountGroup(foods_, "vegetable"))
        sauce_weight == Int2Q(CountGroup(foods_, "sauce"))
        total_portions == QAdd(QAdd(main_weight, veggie_weight), sauce_weight)
        weight_per_food_ == QDiv(total, Int2Q(Len(foods_)))
        Share(food) ==
            LET group == DistributionGroup(food)
            IN  IF group = "main"
                THEN QMul(QMul(QDiv(main_weight, total_portions), total), Q(5, 10))
                ELSE IF group = "vegetable"
                THEN QMul(QMul(QDiv(veggie_weight, total_portions), total), Q(3, 10))
                ELSE IF group = "sauce"
                THEN QMul(QMul(QDiv(sauce_weight, total_portions), total), Q(1, 10))
                ELSE QMul(weight_per_food_, Q(6, 10))
        keys == {foods_[i] : i \in 1..Len(foods_)}
    IN  IF total_portions = Zero
        THEN [food \in keys |-> weight_per_food_]
        ELSE [food \in keys |-> Share(food)]

-----------------------------------------------------------------------------
(* The distribution specification: a multi-item detection is split once, by  *)
(* HyperAccurateCalculator or by CalorieCalculator.                          *)

MaxFoods == 3

DistributionLabels ==
    {"Rice", "Grilled Chicken", "Broccoli", "Salsa", "Apple", "Tomato Sauce"}

FoodLists ==
    UNION { [1..n -> DistributionLabels] : n \in 2..MaxFoods }

InitDistribution ==
    /\ pc = "start"
    /\ foods \in FoodLists
    /\ total_weight \in {Int2Q(100), Int2Q(300), Int2Q(250)}
    /\ distribution = Unset
    /\ recognition_result = Unset /\ web_reply = Unset /\ usda_reply = Unset
    /\ calorie_result = Unset /\ calls = <<>>
    /\ food_name = "" /\ category = ""
    /\ user_feedback = <<>> /\ analysis_result = Unset
    /\ current_user = 0 /\ adjusted = Unset
    /\ food_entries = <<>> /\ upload_estimates = <<>> /\ correction_estimates = <<>>
    /\ NoImages

\* HyperAccurateCalculator._calculate_multi_food_ai_enhanced, line 234
EstimateWeightDistribution ==
    /\ pc = "start"
    /\ distribution' = [calculator |-> "HyperAccurateCalculator",
                        assigned |-> _estimate_weight_distribution(foods, total_weight)]
    /\ pc' = "done"
    /\ UNCHANGED <<foods, total_weight, resolverVars, classifyVars, learningVars, cleanupVars>>

\* CalorieCalculator._calculate_multi_food_nutrition, lines 377 and 381-382:
\* every position of the list is given the same sub-weight
DivideEqually ==
    /\ pc = "start"
    /\ distribution' = [calculator |-> "CalorieCalculator",
                        assigned |-> [i \in 1..Len(foods) |->
                                         weight_per_food(foods, total_weight)]]
    /\ pc' = "done"
    /\ UNCHANGED <<foods, total_weight, resolverVars, classifyVars, learningVars, cleanupVars>>

NextDistribution == EstimateWeightDistribution \/ DivideEqually

SpecDistribution == InitDistribution /\ [][NextDistribution]_vars

RECURSIVE SumOver(_, _)
\* the sum of f over the keys in S
SumOver(f, S) ==
    IF S = {} THEN Zero
    ELSE LET k == CHOOSE x \in S : TRUE
         IN  QAdd(f[k], SumOver(f, S \ {k}))

assigned_total == SumOver(distribution.assigned, DOMAIN distribution.assigned)

\* C7: for every list of N >= 2 labels and every total weight, the sub-weights
\* the multi-item weight distribution assigns to the labels sum to the total
\* weight.
C7_SubWeightsSumToTotal ==
    (pc = "done" /\ Len(foods) >= 2) => assigned_total = total_weight

\* the equal division of CalorieCalculator does sum to the total
C7_EqualDivisionSums ==
    (pc = "done" /\ distribution.calculator = "CalorieCalculator")
        => assigned_total = total_weight

\* rice and broccoli sharing 300 g are given 75 g and 45 g
C7_RiceAndBroccoli ==
    /\ pc = "done"
    /\ distribution.calculator = "HyperAccurateCalculator"
    /\ foods = <<"Rice", "Broccoli">>
    /\ total_weight = Int2Q(300)
    /\ distribution.assigned["Rice"] = Int2Q(75)
    /\ distribution.assigned["Broccoli"] = Int2Q(45)


-----------------------------------------------------------------------------
(* app.py: classify_food_category.  category_keywords holds the keyword list *)
(* of each branch of the if/elif chain of lines 414-447, under the name the  *)
(* branch returns.                                                           *)

category_keywords == <<
    [category |-> "grain", keywords |->
        <<"pizza", "pasta", "bread", "rice", "noodle", "bagel", "cereal", "oatmeal",
          "quinoa", "barley", "wheat", "tortilla", "wrap", "sandwich">>],
    [category |-> "protein", keywords |->
        <<"chicken", "beef", "pork", "fish", "meat", "turkey", "ham", "salami", "cold cut",
          "deli", "sausage", "bacon", "egg", "tofu", "beans", "lentil", "salmon", "tuna">>],
    [category |-> "fruit", keywords |->
        <<"apple", "banana", "orange", "fruit", "berry", "grape", "mango", "pineapple",
          "strawberry", "blueberry", "cherry", "peach", "pear", "kiwi">>],
    [category |-> "vegetable", keywords |->
        <<"salad", "vegetable", "broccoli", "carrot", "spinach", "lettuce", "tomato",
          "pepper", "onion", "potato", "sweet potato", "corn", "peas", "green", "cabbage">>],
    [category |-> "dairy", keywords |->
        <<"milk", "cheese", "yogurt", "butter", "cream", "cottage cheese", "mozzarella",
          "cheddar", "parmesan">>],
    [category |-> "snack", keywords |->
        <<"chips", "crackers", "pretzels", "popcorn", "nuts", "trail mix", "granola">>],
    [category |-> "dessert", keywords |->
        <<"cake", "cookie", "ice cream", "candy", "chocolate", "brownie", "pie", "donut",
          "muffin", "sweet", "dessert">>],
    [category |-> "fast_food", keywords |->
        <<"burger", "fries", "mcdonalds", "subway", "kfc", "taco", "burrito">>],
    [category |-> "beverage", keywords |->
        <<"coffee", "tea", "soda", "juice", "water", "beer", "wine", "smoothie", "shake">>] >>

Keywords(group) ==
    category_keywords[FirstIndex(category_keywords, LAMBDA c : c.category = group)].keywords

\* a variant of classify_food_category that tests the protein keywords first
classify_protein_first(name) ==
    LET food_name_lower == Lower(name)
        Has(group) == AnyIn(Keywords(group), food_name_lower)
    IN  IF Has("protein") THEN "protein"
        ELSE IF Has("grain") THEN "grain"
        ELSE IF Has("fruit") THEN "fruit"
        ELSE IF Has("vegetable") THEN "vegetable"
        ELSE IF Has("dairy") THEN "dairy"
        ELSE IF Has("snack") THEN "snack"
        ELSE IF Has("dessert") THEN "dessert"
        ELSE IF Has("fast_food") THEN "fast_food"
        ELSE IF Has("beverage") THEN "beverage"
        ELSE "other"

classify_food_category(name) ==
    LET food_name_lower == Lower(name)
        Has(group) == AnyIn(Keywords(group), food_name_lower)
    IN  IF Has("grain") THEN "grain"
        ELSE IF Has("protein") THEN "protein"
        ELSE IF Has("fruit") THEN "fruit"
        ELSE IF Has("vegetable") THEN "vegetable"
        ELSE IF Has("dairy") THEN "dairy"
        ELSE IF Has("snack") THEN "snack"
        ELSE IF Has("dessert") THEN "dessert"
        ELSE IF Has("fast_food") THEN "fast_food"
        ELSE IF Has("beverage") THEN "beverage"
        ELSE "other"

-----------------------------------------------------------------------------
(* The classifier specification: one label is classified *)

\* labels are one or two words, in the title case the recognizer produces
FirstWords ==
    {"", "Chicken", "Apple", "Cheese", "Green", "Sweet", "Iced", "Grilled",
     "Mcdonalds", "Egg", "PINE"}
SecondWords ==
    {"Sandwich", "Salad", "Pie", "Burger", "Tea", "Chips", "Stew", "Steak",
     "Juice", "Apple", "Milk", "Rice", "Plant", ""}

ClassifyLabels ==
    {Strip(a \o " " \o b) : a \in FirstWords, b \in SecondWords}

InitClassify ==
    /\ pc = "start"
    /\ food_name \in ClassifyLabels
    /\ category = ""
    /\ recognition_result = Unset /\ web_reply = Unset /\ usda_reply = Unset
    /\ calorie_result = Unset /\ calls = <<>>
    /\ foods = <<>> /\ total_weight = Zero /\ distribution = Unset
    /\ user_feedback = <<>> /\ analysis_result = Unset
    /\ current_user = 0 /\ adjusted = Unset
    /\ food_entries = <<>> /\ upload_estimates = <<>> /\ correction_estimates = <<>>
    /\ NoImages

Classify ==
    /\ pc = "start"
    /\ category' = classify_food_category(food_name)
    /\ pc' = "done"
    /\ UNCHANGED <<food_name, resolverVars, distributionVars, learningVars, cleanupVars>>

NextClassify == Classify

SpecClassify == InitClassify /\ [][NextClassify]_vars

\* the groups in the order of the if/elif chain
GroupOrder ==
    <<"grain", "protein", "fruit", "vegetable", "dairy", "snack", "dessert",
      "fast_food", "beverage">>

\* the group has a keyword that is a substring of the lowercased label
GroupMatches(group, label) ==
    \E i \in 1..Len(Keywords(group)) : In(Keywords(group)[i], Lower(label))

\* C8: classify_food_category is total and returns the first group, in the
\* order grain, protein, fruit, vegetable, dairy, snack, dessert, fast_food,
\* beverage, that has a keyword occurring as a substring of the lowercased
\* label, and 'other' when no group matches; 'Chicken Sandwich' is grain.
C8_FirstMatchingGroup ==
    pc = "done" =>
        /\ \/ category = "other" /\ \A i \in 1..Len(GroupOrder) :
                                        ~GroupMatches(GroupOrder[i], food_name)
           \/ \E i \in 1..Len(GroupOrder) :
                 /\ category = GroupOrder[i]
                 /\ GroupMatches(GroupOrder[i], food_name)
                 /\ \A j \in 1..(i - 1) : ~GroupMatches(GroupOrder[j], food_name)
        /\ food_name = "Chicken Sandwich" => category = "grain"

\* a label with a grain keyword and a protein keyword was classified as grain
C8_Witness ==
    /\ pc = "done"
    /\ food_name = "Chicken Sandwich"
    /\ GroupMatches("grain", food_name) /\ GroupMatches("protein", food_name)
    /\ category = "grain"


-----------------------------------------------------------------------------
(* app.py: the learning adjuster.  user_feedback is the UserFeedback table,  *)
(* a sequence of rows in insertion order with the columns the adjuster       *)
(* reads; a Numeric column holds a number or None.                           *)

\* a query that does not filter by user
CorrectionsOfAnyone(table, user_id) == table

\* filter_by(user_id=user_id) over the rows of a table
CorrectionsIn(table, user_id) ==
    SelectSeq(table, LAMBDA c : c.user_id = user_id)

CorrectionsOf(user_id) == CorrectionsIn(user_feedback, user_id)

RECURSIVE SortDesc(_, _)
\* rows by keys, the greatest key first and rows of equal key in their
\* original order; keys[i] is the key of rows[i]
SortDesc(rows, keys) ==
    IF rows = <<>> THEN <<>>
    ELSE LET first == CHOOSE i \in 1..Len(rows) :
                          /\ \A j \in 1..Len(rows) : QLe(keys[j], keys[i])
                          /\ \A j \in 1..(i - 1) : keys[j] # keys[i]
             Others(seq) == SubSeq(seq, 1, first - 1) \o SubSeq(seq, first + 1, Len(seq))
         IN  <<rows[first]>> \o SortDesc(Others(rows), Others(keys))

\* sorted(rows, key=Key, reverse=True), and ORDER BY Key DESC
SortDescBy(rows, Key(_)) == SortDesc(rows, [i \in 1..Len(rows) |-> Key(rows[i])])

Limit(rows, n) == SubSeq(rows, 1, IF Len(rows) < n THEN Len(rows) ELSE n)

CreatedAt(c) == Int2Q(c.created_at)

\* lines 486-487 and 593-594
has_calorie_change(c) ==
    /\ Truthy(c.ai_calories) /\ Truthy(c.corrected_calories)
    /\ QGt(QDiv(QAbs(QSub(c.corrected_calories, c.ai_calories)), c.ai_calories), Q(5, 10))

\* lines 488-489 and 590-591
has_portion_change(c) ==
    /\ Truthy(c.corrected_weight_grams) /\ Truthy(c.ai_weight_grams)
    /\ QGt(QDiv(QAbs(QSub(c.corrected_weight_grams, c.ai_weight_grams)), c.ai_weight_grams),
           Q(2, 10))

\* lines 485-499; created_at is in seconds
correction_priority(c) ==
    QAdd(QAdd(IF has_calorie_change(c) THEN Int2Q(100) ELSE Zero,
              IF has_portion_change(c) THEN Int2Q(50) ELSE Zero),
         QDiv(CreatedAt(c), Int2Q(1000000)))

\* lines 476-482: the correction shares two or more words with the name
IsFuzzyMatch(c, name) ==
    /\ c.ai_food_name # ""
    /\ Cardinality(Words(Lower(name)) \cap Words(Lower(c.ai_food_name))) >= 2

\* lines 452-509, the queries being answered from the rows of table
LearningContextOver(table, user_id, name) ==
    LET food_category == classify_food_category(name)
        similar_corrections ==
            Limit(SortDescBy(SelectSeq(CorrectionsIn(table, user_id),
                                       LAMBDA c : c.food_category = food_category),
                             CreatedAt), 10)
        exact_corrections ==
            Limit(SortDescBy(SelectSeq(CorrectionsIn(table, user_id),
                                       LAMBDA c : c.ai_food_name = name),
                             CreatedAt), 5)
        fuzzy_corrections ==
            IF exact_corrections = <<>>
            THEN Limit(SortDescBy(SelectSeq(CorrectionsIn(table, user_id),
                                            LAMBDA c : IsFuzzyMatch(c, name)),
                                  correction_priority), 5)
            ELSE <<>>
    IN  [similar_corrections |-> similar_corrections,
         exact_corrections |-> exact_corrections,
         fuzzy_corrections |-> fuzzy_corrections,
         food_category |-> food_category]

get_learning_context(user_id, name) == LearningContextOver(user_feedback, user_id, name)


RECURSIVE Join(_, _)
\* sep.join(parts)
Join(parts, sep) ==
    IF parts = <<>> THEN ""
    ELSE IF Len(parts) = 1 THEN parts[1]
    ELSE parts[1] \o sep \o Join(Tail(parts), sep)

InRange(x, low, high) == QLe(low, x) /\ QLe(x, high)

\* lines 574-575
corrections_to_use(ctx) ==
    IF ctx.exact_corrections # <<>> THEN ctx.exact_corrections ELSE ctx.fuzzy_corrections
correction_type(ctx) == IF ctx.exact_corrections # <<>> THEN "exact" ELSE "fuzzy"

\* a step 4 that scales the macronutrients with the portion
ScalesMacrosWithPortion(result, ctx) ==
    LET latest_correction == corrections_to_use(ctx)[1]
        weight_ratio == QDiv(latest_correction.corrected_weight_grams,
                             latest_correction.ai_weight_grams)
    IN  IF /\ corrections_to_use(ctx) # <<>>
           /\ has_portion_change(latest_correction)
           /\ InRange(weight_ratio, Q(3, 10), Int2Q(5))
        THEN Update(result, [weight_grams |-> QMul(result.weight_grams, weight_ratio),
                             calories |-> QMul(result.calories, weight_ratio),
                             protein |-> QMul(result.protein, weight_ratio),
                             carbs |-> QMul(result.carbs, weight_ratio),
                             fat |-> QMul(result.fat, weight_ratio),
                             learning_applied |-> correction_type(ctx) \o "_portion_adjustment"])
        ELSE result

\* lines 579-611: the name, portion and calorie corrections taken from the
\* first correction to use
ApplyLatestCorrection(result, ctx) ==
    LET latest_correction == corrections_to_use(ctx)[1]
        renamed == latest_correction.corrected_food_name # latest_correction.ai_food_name
        weight_ratio == QDiv(latest_correction.corrected_weight_grams,
                             latest_correction.ai_weight_grams)
        calorie_ratio == QDiv(latest_correction.corrected_calories,
                              latest_correction.ai_calories)
        portion == /\ has_portion_change(latest_correction)
                   /\ InRange(weight_ratio, Q(3, 10), Int2Q(5))
        calorie == /\ ~has_portion_change(latest_correction)
                   /\ has_calorie_change(latest_correction)
        learning_types ==
            (IF renamed THEN <<"name_correction">> ELSE <<>>)
            \o (IF portion THEN <<"portion_adjustment">>
                ELSE IF calorie THEN <<"calorie_correction">> ELSE <<>>)
        named == IF renamed
                 THEN Update(result, [food_name |-> latest_correction.corrected_food_name])
                 ELSE result
        scaled == IF portion
                  THEN Update(named, [weight_grams |-> QMul(named.weight_grams, weight_ratio),
                                      calories |-> QMul(named.calories, weight_ratio)])
                  ELSE IF calorie
                  THEN Update(named, [calories |-> QMul(named.calories, calorie_ratio)])
                  ELSE named
    IN  IF corrections_to_use(ctx) = <<>> THEN result
        ELSE IF learning_types # <<>>
        THEN Update(scaled, [learning_applied |->
                                 correction_type(ctx) \o "_" \o Join(learning_types, "_")])
        ELSE scaled

\* lines 617-622: the ratios of the similar corrections that are in range
calorie_ratios(similar_corrections) ==
    LET usable == SelectSeq(similar_corrections,
                      LAMBDA c : /\ Truthy(c.ai_calories) /\ Truthy(c.corrected_calories)
                                 /\ InRange(QDiv(c.corrected_calories, c.ai_calories),
                                            Q(3, 10), Int2Q(3)))
    IN  [i \in 1..Len(usable) |-> QDiv(usable[i].corrected_calories, usable[i].ai_calories)]

RECURSIVE Sum(_)
Sum(seq) == IF seq = <<>> THEN Zero ELSE QAdd(Head(seq), Sum(Tail(seq)))

\* a category step that does not wait for three corrections
AdjustsFromFirstCorrection(ctx) ==
    LET ratios == calorie_ratios(ctx.similar_corrections)
        avg_calorie_ratio == QDiv(Sum(ratios), Int2Q(Len(ratios)))
    IN  IF /\ ratios # <<>>
           /\ QGt(QAbs(QSub(avg_calorie_ratio, One)), Q(1, 10))
        THEN avg_calorie_ratio
        ELSE None

\* lines 614-629: the factor the category step multiplies calories by, or
\* None when the step does not apply
category_adjustment(ctx) ==
    LET ratios == calorie_ratios(ctx.similar_corrections)
        avg_calorie_ratio == QDiv(Sum(ratios), Int2Q(Len(ratios)))
    IN  IF /\ Len(ctx.similar_corrections) >= 3
           /\ ratios # <<>>
           /\ QGt(QAbs(QSub(avg_calorie_ratio, One)), Q(1, 10))
        THEN avg_calorie_ratio
        ELSE None

\* lines 613-629
ApplyCategoryCorrection(result, ctx) ==
    IF category_adjustment(ctx) # None
    THEN Update(result, [calories |-> QMul(result.calories, category_adjustment(ctx)),
                         learning_applied |-> "category_calorie_adjustment"])
    ELSE result

\* lines 564-631, the queries being answered from the rows of table
AdjustmentsOver(table, result, user_id) ==
    LET ctx == LearningContextOver(table, user_id, Get(result, "food_name", ""))
    IN  ApplyCategoryCorrection(ApplyLatestCorrection(result, ctx), ctx)

\* the dict returned (it is analysis_result, changed in place)
apply_learning_adjustments(result, user_id) ==
    AdjustmentsOver(user_feedback, result, user_id)

\* what the database does with the queries of one call: it answers them
\* all, or one of them raises (a locked or unreachable database)
DbOutcomes == {"ok", "similar_raises", "exact_raises", "fuzzy_raises"}

\* lines 458-473: the category and exact queries always run, the fuzzy one
\* only when no exact correction was found
LearningContextRaises(user_id, name, db) ==
    \/ db \in {"similar_raises", "exact_raises"}
    \/ /\ db = "fuzzy_raises"
       /\ SelectSeq(CorrectionsOf(user_id), LAMBDA c : c.ai_food_name = name) = <<>>

\* an adjuster that runs the category query when it reaches the category
\* step, after the latest correction was applied to the dict
QueriesCategoryLate(result, user_id, db) ==
    IF db \in {"exact_raises", "fuzzy_raises"}
          /\ LearningContextRaises(user_id, Get(result, "food_name", ""), db)
    THEN [raised |-> TRUE, dict |-> result]
    ELSE IF db = "similar_raises"
    THEN [raised |-> TRUE,
          dict |-> ApplyLatestCorrection(result,
                       get_learning_context(user_id, Get(result, "food_name", "")))]
    ELSE [raised |-> FALSE, dict |-> apply_learning_adjustments(result, user_id)]

\* a handler that hands the dict of the first call, as that call left it, to
\* the second call
ReusesAdjustedDict(result, user_id, db) ==
    IF LearningContextRaises(user_id, Get(result, "food_name", ""), db)
    THEN [raised |-> TRUE, dict |-> result]
    ELSE [raised |-> FALSE,
          dict |-> apply_learning_adjustments(IF pc = "done" THEN adjusted ELSE result,
                                              user_id)]

\* lines 564-631 as a call: whether it raised, and the dict passed to it as
\* the call left it.  All queries are made at line 567, before the dict is
\* written to; no later statement raises, every division being guarded by
\* the truth value of its divisor.
apply_learning_adjustments_call(result, user_id, db) ==
    IF LearningContextRaises(user_id, Get(result, "food_name", ""), db)
    THEN [raised |-> TRUE, dict |-> result]
    ELSE [raised |-> FALSE, dict |-> apply_learning_adjustments(result, user_id)]


-----------------------------------------------------------------------------
(* The adjuster specification: a user's correction history is in the table   *)
(* and one raw analysis is adjusted for the current user.                    *)

MaxCorrections == 3

Correction(user_id, ai_food_name, ai_weight_grams, ai_calories, corrected_food_name, corrected_weight_grams, corrected_calories) ==
    [user_id |-> user_id,
     ai_food_name |-> ai_food_name,
     ai_weight_grams |-> ai_weight_grams,
     ai_calories |-> ai_calories,
     corrected_food_name |-> corrected_food_name,
     corrected_weight_grams |-> corrected_weight_grams,
     corrected_calories |-> corrected_calories,
     \* capture_user_feedback, line 400
     food_category |-> classify_food_category(corrected_food_name)]

\* the corrections a history is drawn from
CorrectionTemplates ==
    { \* a larger portion, calories following
      Correction(1, "Pasta", Int2Q(100), Int2Q(200), "Pasta", Int2Q(150), Int2Q(300)),
      \* the same weight within 20%, twice the calories
      Correction(1, "Pasta", Int2Q(100), Int2Q(200), "Pasta", Int2Q(105), Int2Q(400)),
      \* six times the weight, twice the calories
      Correction(1, "Pasta", Int2Q(100), Int2Q(200), "Pasta", Int2Q(600), Int2Q(400)),
      \* another name only
      Correction(1, "Pasta", Int2Q(100), Int2Q(200), "Spaghetti Bolognese", Int2Q(100), Int2Q(200)),
      \* the weight field left at 0 in the edit form, twice the calories
      Correction(1, "Pasta", Int2Q(100), Int2Q(200), "Pasta", Zero, Int2Q(400)),
      \* a longer name sharing two words with 'Chicken Pasta'
      Correction(1, "Chicken Pasta Bake", Int2Q(200), Int2Q(400),
                 "Chicken Pasta Bake", Int2Q(300), Int2Q(600)),
      \* another grain, a quarter more calories
      Correction(1, "Rice", Int2Q(100), Int2Q(100), "Rice", Int2Q(100), Int2Q(125)),
      \* no figures recorded by the recognizer
      Correction(1, "Pasta", None, None, "Pasta", Int2Q(150), Int2Q(300)),
      \* another user's correction
      Correction(2, "Pasta", Int2Q(100), Int2Q(200), "Pasta", Int2Q(50), Int2Q(100)) }

\* row i of the table was inserted on day i: id and created_at (in seconds)
\* grow with the position
Stored(templates) ==
    [i \in 1..Len(templates) |->
        Update(templates[i], [id |-> i, created_at |-> i * 86400])]

Histories ==
    { Stored(h) : h \in UNION { [1..n -> CorrectionTemplates] : n \in 0..MaxCorrections } }

\* get_learning_context line 461 reads ten category corrections at most: a
\* long history has one more, each of them a grain correction that keeps the
\* calories or triples them
RecentLimit == 10
LongCorrectionTemplates ==
    { Correction(1, "Rice", Int2Q(100), Int2Q(100), "Rice", Int2Q(100), Int2Q(100)),
      Correction(1, "Rice", Int2Q(100), Int2Q(100), "Rice", Int2Q(100), Int2Q(300)) }
LongHistories ==
    { Stored(h) : h \in [1..(RecentLimit + 1) -> LongCorrectionTemplates] }

\* histories of grain corrections that keep the calories, add a quarter,
\* multiply them by four or correct an estimate of zero
GrainCorrectionTemplates ==
    { Correction(1, "Rice", Int2Q(100), Int2Q(100), "Rice", Int2Q(100), Int2Q(100)),
      Correction(1, "Rice", Int2Q(100), Int2Q(100), "Rice", Int2Q(100), Int2Q(125)),
      Correction(1, "Rice", Int2Q(100), Int2Q(100), "Rice", Int2Q(100), Int2Q(400)),
      \* an estimate of 0 g and 0 kcal corrected to 150 g and 300 kcal
      Correction(1, "Pasta", Zero, Zero, "Pasta", Int2Q(150), Int2Q(300)) }
GrainHistories ==
    { Stored(h) : h \in [1..MaxCorrections -> GrainCorrectionTemplates] }

\* corrections of 'Chicken Pasta Bake', which shares two words with 'Chicken
\* Pasta': the name only; the weight by half (the calories by exactly 50%);
\* the calories by more than half
FuzzyCorrectionTemplates ==
    { Correction(1, "Chicken Pasta Bake", Int2Q(200), Int2Q(400),
                 "Pasta Bake", Int2Q(200), Int2Q(400)),
      Correction(1, "Chicken Pasta Bake", Int2Q(200), Int2Q(400),
                 "Chicken Pasta Bake", Int2Q(300), Int2Q(600)),
      Correction(1, "Chicken Pasta Bake", Int2Q(200), Int2Q(400),
                 "Chicken Pasta Bake", Int2Q(200), Int2Q(1000)) }

\* row i of the table was inserted two years after row i - 1
StoredYearsApart(templates) ==
    [i \in 1..Len(templates) |->
        Update(templates[i], [id |-> i, created_at |-> i * 730 * 86400])]

\* get_learning_context lines 467 and 502 keep five corrections: a fuzzy
\* history has one more, a day or two years apart.  Its three oldest rows
\* are the three corrections above in the order above.
FuzzyLimit == 5
FuzzyPrefix ==
    << Correction(1, "Chicken Pasta Bake", Int2Q(200), Int2Q(400),
                  "Pasta Bake", Int2Q(200), Int2Q(400)),
       Correction(1, "Chicken Pasta Bake", Int2Q(200), Int2Q(400),
                  "Chicken Pasta Bake", Int2Q(300), Int2Q(600)),
       Correction(1, "Chicken Pasta Bake", Int2Q(200), Int2Q(400),
                  "Chicken Pasta Bake", Int2Q(200), Int2Q(1000)) >>
FuzzyHistories ==
    UNION { {Stored(FuzzyPrefix \o h), StoredYearsApart(FuzzyPrefix \o h)} :
                h \in [1..(FuzzyLimit - 2) -> FuzzyCorrectionTemplates] }

\* corrections of 'Pasta' that keep the calories, triple them, or multiply
\* them by twenty (a typing slip in the edit form: 4000 kcal for 200 kcal)
ExactCorrectionTemplates ==
    { Correction(1, "Pasta", Int2Q(100), Int2Q(200), "Pasta", Int2Q(100), Int2Q(200)),
      Correction(1, "Pasta", Int2Q(100), Int2Q(200), "Pasta", Int2Q(100), Int2Q(600)),
      Correction(1, "Pasta", Int2Q(100), Int2Q(200), "Pasta", Int2Q(100), Int2Q(4000)) }
\* an exact history has one row more than line 467 fetches; its three oldest
\* rows keep, keep and triple the calories
ExactPrefix ==
    << Correction(1, "Pasta", Int2Q(100), Int2Q(200), "Pasta", Int2Q(100), Int2Q(200)),
       Correction(1, "Pasta", Int2Q(100), Int2Q(200), "Pasta", Int2Q(100), Int2Q(200)),
       Correction(1, "Pasta", Int2Q(100), Int2Q(200), "Pasta", Int2Q(100), Int2Q(600)) >>
ExactHistories ==
    { Stored(ExactPrefix \o h) : h \in [1..(FuzzyLimit - 2) -> ExactCorrectionTemplates] }

\* a correction of 'Chicken Pasta' that changes nothing and one that changes
\* name and portion, beside one of 'Chicken Pasta Bake' that changes the
\* portion
MixedCorrectionTemplates ==
    { Correction(1, "Chicken Pasta", Int2Q(100), Int2Q(200),
                 "Chicken Pasta", Int2Q(100), Int2Q(200)),
      Correction(1, "Chicken Pasta", Int2Q(100), Int2Q(200),
                 "Chicken Alfredo", Int2Q(150), Int2Q(300)),
      Correction(1, "Chicken Pasta Bake", Int2Q(200), Int2Q(400),
                 "Chicken Pasta Bake", Int2Q(300), Int2Q(600)) }
MixedHistories ==
    { Stored(h) : h \in [1..2 -> MixedCorrectionTemplates] }

\* upload_food lines 754-770: the raw analysis handed to the adjuster
RawAnalyses ==
    { [food_name |-> name, weight_grams |-> Int2Q(100), calories |-> Int2Q(200),
       protein |-> Int2Q(7), carbs |-> Int2Q(40), fat |-> Int2Q(1)] :
        name \in {"Pasta", "Chicken Pasta"} }

InitAdjust ==
    /\ pc = "start"
    /\ user_feedback \in Histories \cup LongHistories \cup GrainHistories \cup FuzzyHistories
                         \cup ExactHistories \cup MixedHistories
    /\ analysis_result \in RawAnalyses
    /\ current_user \in {1, 2}
    /\ adjusted = Unset
    /\ food_entries = <<>> /\ upload_estimates = <<>> /\ correction_estimates = <<>>
    /\ recognition_result = Unset /\ web_reply = Unset /\ usda_reply = Unset
    /\ calorie_result = Unset /\ calls = <<>>
    /\ foods = <<>> /\ total_weight = Zero /\ distribution = Unset
    /\ food_name = "" /\ category = ""
    /\ NoImages

\* upload_food lines 773-777, for a first request and for a second one with
\* the same analysis (each request builds its own dict at lines 754-770).
\* pc tells how the last call ended: "done" when the first call returned,
\* "again" when the second did, "failed" when the except branch was taken;
\* the handler goes on with the dict either way.
ApplyLearningAdjustments ==
    /\ pc \in {"start", "done", "failed"}
    /\ \E db \in DbOutcomes :
           \E call \in {apply_learning_adjustments_call(analysis_result, current_user, db)} :
               /\ adjusted' = call.dict
               /\ pc' = IF call.raised THEN "failed"
                        ELSE IF pc = "start" THEN "done" ELSE "again"
    /\ UNCHANGED <<user_feedback, analysis_result, current_user, entryVars>>
    /\ UNCHANGED <<resolverVars, distributionVars, classifyVars, cleanupVars>>

NextAdjust == ApplyLearningAdjustments

SpecAdjust == InitAdjust /\ [][NextAdjust]_vars


-----------------------------------------------------------------------------
(* Properties of the adjuster *)

adjusting == get_learning_context(current_user, analysis_result.food_name)
\* a correction is used in step 4, and which one
correction_used == corrections_to_use(adjusting) # <<>>
used == corrections_to_use(adjusting)[1]
\* what step 5 multiplies the calories by
category_factor ==
    IF category_adjustment(adjusting) = None THEN One ELSE category_adjustment(adjusting)
provenance == Get(adjusted, "learning_applied", "")

Recorded(x) == IsNumber(x) /\ x # Zero

\* both weights are recorded and differ by more than 20% of ai_weight
IsPortionCorrection(c) ==
    /\ Recorded(c.ai_weight_grams) /\ Recorded(c.corrected_weight_grams)
    /\ QGt(QAbs(QSub(c.corrected_weight_grams, c.ai_weight_grams)),
           QMul(Q(2, 10), c.ai_weight_grams))

\* both weights are recorded and differ by at most 20% of ai_weight, and both
\* calories are recorded and differ by more than 50% of ai_calories
IsCalorieCorrection(c) ==
    /\ Recorded(c.ai_weight_grams) /\ Recorded(c.corrected_weight_grams)
    /\ ~IsPortionCorrection(c)
    /\ Recorded(c.ai_calories) /\ Recorded(c.corrected_calories)
    /\ QGt(QAbs(QSub(c.corrected_calories, c.ai_calories)),
           QMul(Q(5, 10), c.ai_calories))

portion_ratio == QDiv(used.corrected_weight_grams, used.ai_weight_grams)
portion_in_range == InRange(portion_ratio, Q(3, 10), Int2Q(5))

\* C9: when the correction used in step 4 is a portion correction with a
\* ratio in [0.3, 5.0], the adjusted weight and calories are the raw ones
\* times the ratio (the calories further times the category factor of step 5
\* when that step applies) and the provenance includes portion_adjustment;
\* when the ratio is outside [0.3, 5.0], step 4 changes neither.
C9_PortionAdjustment ==
    (pc = "done" /\ correction_used /\ IsPortionCorrection(used)) =>
        IF portion_in_range
        THEN /\ adjusted.weight_grams = QMul(analysis_result.weight_grams, portion_ratio)
             /\ adjusted.calories =
                    QMul(QMul(analysis_result.calories, portion_ratio), category_factor)
             /\ In("portion_adjustment", provenance)
        ELSE /\ adjusted.weight_grams = analysis_result.weight_grams
             /\ adjusted.calories = QMul(analysis_result.calories, category_factor)

\* what does hold of C9: the figures, with the provenance naming the portion
\* adjustment unless step 5 replaced it
C9_PortionFigures ==
    (pc = "done" /\ correction_used /\ IsPortionCorrection(used)) =>
        IF portion_in_range
        THEN /\ adjusted.weight_grams = QMul(analysis_result.weight_grams, portion_ratio)
             /\ adjusted.calories =
                    QMul(QMul(analysis_result.calories, portion_ratio), category_factor)
             /\ \/ In("portion_adjustment", provenance)
                \/ /\ category_adjustment(adjusting) # None
                   /\ provenance = "category_calorie_adjustment"
        ELSE /\ adjusted.weight_grams = analysis_result.weight_grams
             /\ adjusted.calories = QMul(analysis_result.calories, category_factor)

\* the portion correction 100 g -> 150 g was applied to 100 g and 200 kcal,
\* with two more grain corrections in the history: 150 g, and a provenance
\* that names the category adjustment only
C9_ProvenanceReplaced ==
    /\ pc = "done" /\ correction_used
    /\ used.ai_weight_grams = Int2Q(100) /\ used.corrected_weight_grams = Int2Q(150)
    /\ adjusted.weight_grams = Int2Q(150)
    /\ category_adjustment(adjusting) # None
    /\ provenance = "category_calorie_adjustment"

\* C10: when the correction used in step 4 is not a portion correction and
\* changes the calories by more than 50%, the adjusted calories are the raw
\* ones times corrected_calories / ai_calories (further times the category
\* factor of step 5 when that step applies), the weight is unchanged and the
\* provenance includes calorie_correction; a portion correction never
\* triggers that multiplication, even with its ratio outside [0.3, 5.0].
C10_CalorieCorrection ==
    (pc = "done" /\ correction_used) =>
        /\ IsCalorieCorrection(used) =>
              /\ adjusted.calories =
                     QMul(QMul(analysis_result.calories,
                               QDiv(used.corrected_calories, used.ai_calories)),
                          category_factor)
              /\ adjusted.weight_grams = analysis_result.weight_grams
              /\ In("calorie_correction", provenance)
        /\ IsPortionCorrection(used) =>
              /\ ~In("calorie_correction", provenance)
              /\ adjusted.calories =
                     QMul(QMul(analysis_result.calories,
                               IF portion_in_range THEN portion_ratio ELSE One),
                          category_factor)

\* what does hold of C10: the same, with the provenance naming the calorie
\* correction unless step 5 replaced it
C10_CalorieFigures ==
    (pc = "done" /\ correction_used) =>
        /\ IsCalorieCorrection(used) =>
              /\ adjusted.calories =
                     QMul(QMul(analysis_result.calories,
                               QDiv(used.corrected_calories, used.ai_calories)),
                          category_factor)
              /\ adjusted.weight_grams = analysis_result.weight_grams
              /\ \/ In("calorie_correction", provenance)
                 \/ /\ category_adjustment(adjusting) # None
                    /\ provenance = "category_calorie_adjustment"
        /\ IsPortionCorrection(used) =>
              /\ ~In("calorie_correction", provenance)
              /\ adjusted.calories =
                     QMul(QMul(analysis_result.calories,
                               IF portion_in_range THEN portion_ratio ELSE One),
                          category_factor)

\* the calorie correction 200 -> 400 kcal at 100 g -> 105 g was applied, with
\* two more grain corrections in the history: the weight is unchanged and the
\* provenance names the category adjustment only
C10_ProvenanceReplaced ==
    /\ pc = "done" /\ correction_used
    /\ IsCalorieCorrection(used)
    /\ used.corrected_calories = Int2Q(400) /\ used.ai_calories = Int2Q(200)
    /\ adjusted.weight_grams = analysis_result.weight_grams
    /\ category_adjustment(adjusting) # None
    /\ provenance = "category_calorie_adjustment"


-----------------------------------------------------------------------------
(* The category step of the adjuster *)

\* the record as step 4 leaves it
after_step4 == ApplyLatestCorrection(analysis_result, adjusting)

\* the corrections of a user in a category, in creation order
OfCategory(user_id, food_category) ==
    SelectSeq(user_feedback,
              LAMBDA c : c.user_id = user_id /\ c.food_category = food_category)

\* the ten most recent rows at most
MostRecent(rows) == SubSeq(rows, Max(1, Len(rows) - 9), Len(rows))

\* the corrections fetched for the category of the raw label
category_corrections ==
    MostRecent(OfCategory(current_user, classify_food_category(analysis_result.food_name)))

CalorieRatio(c) == QDiv(c.corrected_calories, c.ai_calories)

\* the rows whose corrected/ai calorie ratio exists and lies in [0.3, 3.0]
WithRatioInRange(rows) ==
    SelectSeq(rows,
              LAMBDA c : /\ Recorded(c.ai_calories) /\ Recorded(c.corrected_calories)
                         /\ QLe(Q(3, 10), CalorieRatio(c))
                         /\ QLe(CalorieRatio(c), Int2Q(3)))

MeanRatio(rows) ==
    QDiv(Sum([i \in 1..Len(rows) |-> CalorieRatio(rows[i])]), Int2Q(Len(rows)))

\* at least three rows are fetched and the mean of the ratios in range
\* differs from 1 by more than 0.1
Fires(fetched, in_range) ==
    /\ Len(fetched) >= 3
    /\ in_range # <<>>
    /\ QGt(QAbs(QSub(MeanRatio(in_range), One)), Q(1, 10))

in_range_corrections == WithRatioInRange(category_corrections)
mean_ratio == MeanRatio(in_range_corrections)
category_step_fires == Fires(category_corrections, in_range_corrections)

\* the category step took the record from before to after
CategoryStep(before, fetched, in_range, after) ==
    /\ \A f \in DOMAIN before \ {"calories", "learning_applied"} : after[f] = before[f]
    /\ IF Fires(fetched, in_range)
       THEN after.calories = QMul(before.calories, MeanRatio(in_range))
       ELSE after = before

\* C11: the category step multiplies the calories by the mean in-range
\* corrected/ai calorie ratio exactly when at least 3 corrections of the user
\* are fetched for the label's category (the 10 most recent at most) and that
\* mean differs from 1.0 by more than 0.1; with fewer than 3 category
\* corrections it changes nothing; when it fires it multiplies the calories
\* as step 4 left them and no other figure of the record.
C11_CategoryAdjustment ==
    pc = "done" =>
        CategoryStep(after_step4, category_corrections, in_range_corrections, adjusted)

\* step 4 scaled 100 g and 200 kcal by the portion correction 100 g -> 150 g
\* and the category step multiplied the 300 kcal again, the weight staying
\* at 150 g
C11_Witness ==
    /\ pc = "done" /\ correction_used
    /\ adjusted.weight_grams = Int2Q(150)
    /\ adjusted.calories # Int2Q(300)
    /\ after_step4.weight_grams = Int2Q(150) /\ after_step4.calories = Int2Q(300)
    /\ category_step_fires
    /\ adjusted.calories = QMul(Int2Q(300), mean_ratio)

\* two category corrections that double the calories: nothing changes
C11_FewerThanThree ==
    /\ pc = "done"
    /\ Len(category_corrections) = 2
    /\ \A i \in 1..2 : /\ Recorded(category_corrections[i].ai_calories)
                       /\ CalorieRatio(category_corrections[i]) = Int2Q(2)
    /\ adjusted = after_step4

\* eleven category corrections of which only the oldest triples the
\* calories: the ten that are fetched have a mean ratio of 1 and nothing
\* changes
C11_OlderThanTen ==
    /\ pc = "done"
    /\ Len(user_feedback) = 11
    /\ Len(category_corrections) = 10
    /\ CalorieRatio(user_feedback[1]) = Int2Q(3)
    /\ \A i \in 2..11 : CalorieRatio(user_feedback[i]) = One
    /\ adjusted = analysis_result

\* a category correction with a ratio above 3.0 is left out of the mean
C11_OutOfRange ==
    /\ pc = "done"
    /\ Len(in_range_corrections) < Len(category_corrections)
    /\ category_step_fires
    /\ \E i \in 1..Len(category_corrections) :
           /\ Recorded(category_corrections[i].ai_calories)
           /\ CalorieRatio(category_corrections[i]) = Int2Q(4)


-----------------------------------------------------------------------------
(* Repeated and failing calls of the adjuster *)

C13_FailureLeavesRaw ==
    /\ pc # "start" => DOMAIN analysis_result \subseteq DOMAIN adjusted
    /\ pc = "failed" => adjusted = analysis_result
    /\ (/\ pc \in {"done", "again"} /\ correction_used
        /\ ~Recorded(used.ai_weight_grams) /\ ~Recorded(used.ai_calories)) =>
           /\ adjusted.weight_grams = analysis_result.weight_grams
           /\ adjusted.calories = QMul(analysis_result.calories, category_factor)

\* the call raised although a portion correction was waiting to be applied:
\* the record is the raw one
C13_Witness ==
    /\ pc = "failed"
    /\ correction_used /\ IsPortionCorrection(used) /\ portion_in_range
    /\ used.corrected_food_name = used.ai_food_name
    /\ adjusted = analysis_result
    /\ "learning_applied" \notin DOMAIN adjusted

\* the correction used has an ai weight and ai calories of zero: the call
\* returned and left the figures alone
C13_ZeroEstimate ==
    /\ pc = "done" /\ correction_used
    /\ used.ai_weight_grams = Zero /\ used.ai_calories = Zero
    /\ used.corrected_weight_grams = Int2Q(150)
    /\ adjusted.weight_grams = analysis_result.weight_grams
    /\ ~In("portion_adjustment", provenance) /\ ~In("calorie_correction", provenance)


-----------------------------------------------------------------------------
(* Whose corrections the adjuster reads *)

\* the rows of the table that belong to the current user
own_feedback == SelectSeq(user_feedback, LAMBDA c : c.user_id = current_user)
\* and those that belong to somebody else
foreign_feedback == SelectSeq(user_feedback, LAMBDA c : c.user_id # current_user)

\* C14: the record returned for a user is the one returned from a table that
\* holds that user's corrections only: the corrections of other users, read
\* by none of the exact, fuzzy and category queries, change nothing.
C14_OwnCorrectionsOnly ==
    pc \in {"done", "again"} =>
        adjusted = AdjustmentsOver(own_feedback, analysis_result, current_user)

\* user 1 was served from a table whose newest row is user 2's correction of
\* the same label from 100 g to 50 g: the record carries the 150 g of user
\* 1's own correction
C14_Witness ==
    /\ pc = "done" /\ current_user = 1
    /\ analysis_result.food_name = "Pasta"
    /\ Len(user_feedback) = 3
    /\ user_feedback[3].user_id = 2 /\ user_feedback[3].ai_food_name = "Pasta"
    /\ user_feedback[3].corrected_weight_grams = Int2Q(50)
    /\ Len(own_feedback) = 2
    /\ adjusted.weight_grams = Int2Q(150)

\* user 2 was served from a table that holds corrections of user 1 only: the
\* record is the raw one
C14_NothingOfOnesOwn ==
    /\ pc = "done" /\ current_user = 2
    /\ Len(foreign_feedback) = 3
    /\ \E i \in 1..3 : IsPortionCorrection(user_feedback[i])
    /\ adjusted = analysis_result


-----------------------------------------------------------------------------
(* app.py: the handlers that write entries and corrections.  food_entries is *)
(* the FoodEntry table in id order and user_feedback the UserFeedback table  *)
(* in id order; a Numeric(8,2) column gives back its value to two decimals.  *)

MaxEntries == 1
MaxFeedback == 2

Users == {1, 2}

\* what a Numeric(8,2) column gives back
Numeric(x) == IF x = None THEN None ELSE Round(x, 2)

\* the next value of an integer primary key: one more than the greatest
NextId(rows) == IF rows = <<>> THEN 1 ELSE rows[Len(rows)].id + 1

\* upload_food lines 782-796: the entry stored for an analysis
FoodEntry(id, user_id, analysis, primary_food) ==
    [id |-> id,
     user_id |-> user_id,
     food_name |-> analysis.food_name,
     estimated_weight_grams |-> Numeric(analysis.weight_grams),
     actual_weight_grams |-> None,
     calories |-> Numeric(analysis.calories),
     protein |-> Numeric(Get(analysis, "protein", Zero)),
     carbs |-> Numeric(Get(analysis, "carbs", Zero)),
     fat |-> Numeric(Get(analysis, "fat", Zero)),
     user_corrected |-> FALSE,
     original_ai_food_name |-> primary_food]

\* edit_entry lines 869-876
OriginalAnalysis(entry) ==
    [food_name |-> IF entry.original_ai_food_name # ""
                   THEN entry.original_ai_food_name ELSE entry.food_name,
     weight_grams |-> entry.estimated_weight_grams,
     calories |-> entry.calories,
     protein |-> entry.protein,
     carbs |-> entry.carbs,
     fat |-> entry.fat]

\* edit_entry lines 879-888: the entry after the form was applied and saved
Corrected(entry, form) ==
    Update(entry, [food_name |-> form.food_name,
                   actual_weight_grams |-> Numeric(form.weight),
                   calories |-> Numeric(form.calories),
                   protein |-> Numeric(form.protein),
                   carbs |-> Numeric(form.carbs),
                   fat |-> Numeric(form.fat),
                   user_corrected |-> TRUE])

\* float(x or 0)
FloatOr0(x) == IF x = None THEN Zero ELSE x

Differ(a, b, by) == QGt(QAbs(QSub(a, b)), Int2Q(by))

\* a type list that puts the nutrition test before the portion test
correction_types_nutrition_first(entry, original_analysis) ==
    (IF original_analysis.food_name # entry.food_name THEN <<"name">> ELSE <<>>)
    \o (IF \/ Differ(original_analysis.calories, entry.calories, 10)
           \/ Differ(original_analysis.protein, FloatOr0(entry.protein), 2)
        THEN <<"nutrition">> ELSE <<>>)
    \o (IF Differ(original_analysis.weight_grams, FloatOr0(entry.actual_weight_grams), 5)
        THEN <<"portion">> ELSE <<>>)

\* capture_user_feedback lines 374-381
correction_types(entry, original_analysis) ==
    (IF original_analysis.food_name # entry.food_name THEN <<"name">> ELSE <<>>)
    \o (IF Differ(original_analysis.weight_grams, FloatOr0(entry.actual_weight_grams), 5)
        THEN <<"portion">> ELSE <<>>)
    \o (IF \/ Differ(original_analysis.calories, entry.calories, 10)
           \/ Differ(original_analysis.protein, FloatOr0(entry.protein), 2)
        THEN <<"nutrition">> ELSE <<>>)

\* lines 377-380: float(None) raises
CaptureRaises(original_analysis) ==
    \/ original_analysis.weight_grams = None
    \/ original_analysis.calories = None
    \/ original_analysis.protein = None

\* lines 383-404: the row stored
UserFeedback(id, entry, original_analysis) ==
    [id |-> id,
     user_id |-> entry.user_id,
     ai_food_name |-> original_analysis.food_name,
     ai_weight_grams |-> Numeric(original_analysis.weight_grams),
     ai_calories |-> Numeric(original_analysis.calories),
     ai_protein |-> Numeric(original_analysis.protein),
     ai_carbs |-> Numeric(original_analysis.carbs),
     ai_fat |-> Numeric(original_analysis.fat),
     corrected_food_name |-> entry.food_name,
     corrected_weight_grams |-> entry.actual_weight_grams,
     corrected_calories |-> entry.calories,
     corrected_protein |-> entry.protein,
     corrected_carbs |-> entry.carbs,
     corrected_fat |-> entry.fat,
     food_category |-> classify_food_category(entry.food_name),
     correction_type |->
         IF correction_types(entry, original_analysis) # <<>>
         THEN Join(correction_types(entry, original_analysis), ",")
         ELSE "all",
     learned_from |-> entry.id,
     created_at |-> id * 86400]

\* a capture that keeps one row per entry: the row of an earlier edit of the
\* entry gives way to the new one
KeepsOneRowPerEntry(entry, original_analysis) ==
    Append(SelectSeq(user_feedback, LAMBDA c : c.learned_from # entry.id),
           UserFeedback(NextId(user_feedback), entry, original_analysis))

\* edit_entry lines 891-894 around capture_user_feedback lines 368-407: the
\* table after the call (as it was when the call returns early or raises)
capture_user_feedback(entry, original_analysis) ==
    IF ~entry.user_corrected \/ original_analysis = EmptyDict THEN user_feedback
    ELSE IF CaptureRaises(original_analysis) THEN user_feedback
    ELSE Append(user_feedback, UserFeedback(NextId(user_feedback), entry, original_analysis))

\* a deletion that takes the corrections learned from the entry with it
DeletesFeedbackOfEntry(entry) ==
    SelectSeq(user_feedback, LAMBDA c : c.learned_from # entry.id)

\* delete_entry lines 919-920: the user_feedback table after the entry was
\* deleted.  learned_from (line 212) is a plain foreign key, without ON
\* DELETE, and no relationship of FoodEntry leads to UserFeedback.
feedback_after_delete(entry) == user_feedback

\* what the edit form posts
Form(name, weight, calories, protein) ==
    [food_name |-> name, weight |-> Int2Q(weight), calories |-> Int2Q(calories),
     protein |-> Int2Q(protein), carbs |-> Int2Q(40), fat |-> Int2Q(1)]

\* forms for an entry of 100 g, 200 kcal and 7 g of protein: the same
\* values; values at the 5 g, 10 kcal and 2 g thresholds; the calories or
\* the protein just beyond the threshold; a larger portion with its
\* calories; everything changed; twice the calories and nothing else
Forms ==
    { Form("Pasta", 100, 200, 7),
      Form("Pasta", 100, 400, 7),
      Form("Pasta", 105, 210, 9),
      Form("Pasta", 100, 211, 7),
      Form("Pasta", 100, 200, 10),
      Form("Pasta", 150, 300, 7),
      Form("Spaghetti Bolognese", 150, 400, 10) }

\* the analysis upload_food makes of the image posted
UploadAnalyses == { raw \in RawAnalyses : raw.food_name = "Pasta" }

\* what upload_food stores of its analysis in an entry
Estimate(entry) ==
    [food_name |-> entry.food_name,
     original_ai_food_name |-> entry.original_ai_food_name,
     weight_grams |-> entry.estimated_weight_grams,
     calories |-> entry.calories,
     protein |-> entry.protein,
     carbs |-> entry.carbs,
     fat |-> entry.fat]

\* what is remembered of an upload beside the entry: the raw analysis, how
\* many corrections the table held and whether the learning queries raised
Uploaded(entry, raw, call) ==
    Update(Estimate(entry), [raw |-> raw,
                             corrections_seen |-> Len(user_feedback),
                             learning_failed |-> call.raised])

Remove(seq, i) == SubSeq(seq, 1, i - 1) \o SubSeq(seq, i + 1, Len(seq))

InitApp ==
    /\ pc = "serving"
    /\ food_entries = <<>> /\ upload_estimates = <<>>
    /\ user_feedback = <<>> /\ correction_estimates = <<>>
    /\ analysis_result = Unset /\ current_user = 0 /\ adjusted = Unset
    /\ recognition_result = Unset /\ web_reply = Unset /\ usda_reply = Unset
    /\ calorie_result = Unset /\ calls = <<>>
    /\ foods = <<>> /\ total_weight = Zero /\ distribution = Unset
    /\ food_name = "" /\ category = ""
    /\ NoImages

\* upload_food lines 754-799 for the logged-in user, the analysis of the
\* image and the outcome of the learning queries
UploadFood ==
    /\ Len(food_entries) < MaxEntries
    /\ \E user_id \in Users, raw \in UploadAnalyses, db \in DbOutcomes :
           \E call \in {apply_learning_adjustments_call(raw, user_id, db)} :
               \E entry \in {FoodEntry(NextId(food_entries), user_id, call.dict,
                                       raw.food_name)} :
                   /\ food_entries' = Append(food_entries, entry)
                   /\ upload_estimates' =
                          Append(upload_estimates, Uploaded(entry, raw, call))
    /\ UNCHANGED <<pc, user_feedback, correction_estimates>>
    /\ UNCHANGED <<analysis_result, current_user, adjusted>>
    /\ UNCHANGED <<resolverVars, distributionVars, classifyVars, cleanupVars>>

\* edit_entry lines 858-897, POST, for the logged-in user, an entry and a form
EditEntry ==
    /\ Len(user_feedback) < MaxFeedback
    /\ \E user_id \in Users, i \in 1..Len(food_entries), form \in Forms :
           IF food_entries[i].user_id # user_id
           THEN UNCHANGED <<food_entries, user_feedback, correction_estimates>>
           ELSE \E entry \in {Corrected(food_entries[i], form)} :
                \E table \in {capture_user_feedback(entry,
                                                    OriginalAnalysis(food_entries[i]))} :
                   /\ food_entries' = [food_entries EXCEPT ![i] = entry]
                   /\ user_feedback' = table
                   /\ correction_estimates' =
                          IF table = user_feedback THEN correction_estimates
                          ELSE Append(correction_estimates, upload_estimates[i])
    /\ UNCHANGED <<pc, upload_estimates>>
    /\ UNCHANGED <<analysis_result, current_user, adjusted>>
    /\ UNCHANGED <<resolverVars, distributionVars, classifyVars, cleanupVars>>

\* delete_entry lines 903-923 for the logged-in user and an entry
DeleteEntry ==
    /\ \E user_id \in Users, i \in 1..Len(food_entries) :
           IF food_entries[i].user_id # user_id
           THEN UNCHANGED <<food_entries, upload_estimates, user_feedback>>
           ELSE /\ food_entries' = Remove(food_entries, i)
                /\ upload_estimates' = Remove(upload_estimates, i)
                /\ user_feedback' = feedback_after_delete(food_entries[i])
    /\ UNCHANGED <<pc, correction_estimates>>
    /\ UNCHANGED <<analysis_result, current_user, adjusted>>
    /\ UNCHANGED <<resolverVars, distributionVars, classifyVars, cleanupVars>>

NextApp == UploadFood \/ EditEntry \/ DeleteEntry

SpecApp == InitApp /\ [][NextApp]_vars


-----------------------------------------------------------------------------
(* Properties of the recorded corrections *)

Rows == 1..Len(user_feedback)

\* the corrected values of a row are those of the estimate
SameAsEstimate(row, estimate) ==
    /\ row.corrected_food_name = estimate.food_name
    /\ row.corrected_weight_grams = estimate.weight_grams
    /\ row.corrected_calories = estimate.calories
    /\ row.corrected_protein = estimate.protein
    /\ row.corrected_carbs = estimate.carbs
    /\ row.corrected_fat = estimate.fat

\* C15: a correction is recorded by an edit only if the edited entry differs
\* from its original estimate in name, weight, calories or macros: no row
\* holds corrected values that are all those of the estimate stored at upload.
C15_RecordedOnlyIfDifferent ==
    \A i \in Rows : ~SameAsEstimate(user_feedback[i], correction_estimates[i])

\* an entry was edited with the values it had: a row of type 'all' holds it
C15_IdenticalEditRecorded ==
    \E i \in Rows :
        /\ SameAsEstimate(user_feedback[i], correction_estimates[i])
        /\ user_feedback[i].correction_type = "all"
        /\ user_feedback[i].ai_calories = user_feedback[i].corrected_calories

\* the types a row should carry, from its own ai and corrected values
ExpectedTypes(row) ==
    (IF row.corrected_food_name # row.ai_food_name THEN <<"name">> ELSE <<>>)
    \o (IF QGt(QAbs(QSub(row.ai_weight_grams, row.corrected_weight_grams)), Int2Q(5))
        THEN <<"portion">> ELSE <<>>)
    \o (IF \/ QGt(QAbs(QSub(row.ai_calories, row.corrected_calories)), Int2Q(10))
           \/ QGt(QAbs(QSub(row.ai_protein, row.corrected_protein)), Int2Q(2))
        THEN <<"nutrition">> ELSE <<>>)

TypeTag(types) ==
    IF types = <<>> THEN "all"
    ELSE IF Len(types) = 1 THEN types[1]
    ELSE IF Len(types) = 2 THEN types[1] \o "," \o types[2]
    ELSE types[1] \o "," \o types[2] \o "," \o types[3]

\* C16: the correction_type of a row contains 'name' iff the corrected name
\* differs from the original one, 'portion' iff the weights differ by more
\* than 5, 'nutrition' iff the calories differ by more than 10 or the protein
\* by more than 2, joined by commas in that order, and is 'all' exactly when
\* none of the three holds.
C16_CorrectionType ==
    \A i \in Rows : user_feedback[i].correction_type = TypeTag(ExpectedTypes(user_feedback[i]))

\* a row with all three types
C16_Witness ==
    \E i \in Rows :
        /\ user_feedback[i].correction_type = "name,portion,nutrition"
        /\ user_feedback[i].ai_food_name = "Pasta"
        /\ user_feedback[i].corrected_food_name = "Spaghetti Bolognese"

\* a row whose weight, calories and protein sit at the thresholds (5 g, 10
\* kcal, 2 g): its type is 'all'
C16_AtThresholds ==
    \E i \in Rows :
        /\ user_feedback[i].correction_type = "all"
        /\ QSub(user_feedback[i].corrected_weight_grams, user_feedback[i].ai_weight_grams)
               = Int2Q(5)
        /\ QSub(user_feedback[i].corrected_calories, user_feedback[i].ai_calories) = Int2Q(10)
        /\ QSub(user_feedback[i].corrected_protein, user_feedback[i].ai_protein) = Int2Q(2)

\* a row whose protein alone is beyond its threshold
C16_ProteinOnly ==
    \E i \in Rows :
        /\ user_feedback[i].correction_type = "nutrition"
        /\ user_feedback[i].corrected_calories = user_feedback[i].ai_calories
        /\ QSub(user_feedback[i].corrected_protein, user_feedback[i].ai_protein) = Int2Q(3)

\* C19: every correction that was ever recorded is still in the table with
\* all its fields, whatever upload, edit or deletion is served; an upload (a
\* resolution and an adjustment) leaves the table as it was.
C19_CorrectionsKept ==
    [][ /\ Len(user_feedback') >= Len(user_feedback)
        /\ SubSeq(user_feedback', 1, Len(user_feedback)) = user_feedback
        /\ Len(food_entries') > Len(food_entries) => user_feedback' = user_feedback ]_vars

\* the entry a correction was learned from was deleted and another entry
\* uploaded: the correction is in the table
C19_Witness ==
    /\ Len(user_feedback) = 1
    /\ Len(food_entries) = 1
    /\ ~food_entries[1].user_corrected
    /\ food_entries[1].user_id = user_feedback[1].user_id
    /\ user_feedback[1].learned_from = food_entries[1].id
    /\ food_entries[1].estimated_weight_grams = Int2Q(150)

\* all entries were deleted and the corrections learned from them are kept
C19_AfterDeletion ==
    /\ food_entries = <<>>
    /\ Len(user_feedback) = MaxFeedback

\* C20: the ai fields of every correction are the machine estimate stored in
\* the entry at upload: the label recognised (or the name stored), the
\* estimated weight, the calories, the protein, the carbs and the fat, not
\* values of an earlier edit.
C20_AiFieldsAreUploadEstimate ==
    \A i \in Rows :
        /\ user_feedback[i].ai_food_name \in
               {correction_estimates[i].original_ai_food_name,
                correction_estimates[i].food_name}
        /\ user_feedback[i].ai_weight_grams = correction_estimates[i].weight_grams
        /\ user_feedback[i].ai_calories = correction_estimates[i].calories
        /\ user_feedback[i].ai_protein = correction_estimates[i].protein
        /\ user_feedback[i].ai_carbs = correction_estimates[i].carbs
        /\ user_feedback[i].ai_fat = correction_estimates[i].fat

\* an entry uploaded with 200 kcal was edited to 400 kcal and edited again:
\* the second correction has 400 kcal as its ai calories
C20_SecondEditRecordsFirst ==
    /\ Len(user_feedback) = 2
    /\ user_feedback[1].learned_from = user_feedback[2].learned_from
    /\ correction_estimates[1] = correction_estimates[2]
    /\ correction_estimates[2].calories = Int2Q(200)
    /\ user_feedback[1].corrected_calories = Int2Q(400)
    /\ user_feedback[2].ai_calories = Int2Q(400)

\* what does hold of C20: the ai weight is always the weight estimated at
\* upload, and the ai name the label recognised at upload
C20_WeightAndLabelKept ==
    \A i \in Rows :
        /\ user_feedback[i].ai_food_name = correction_estimates[i].original_ai_food_name
        /\ user_feedback[i].ai_weight_grams = correction_estimates[i].weight_grams


-----------------------------------------------------------------------------
(* The resolver: rejected requests, and the calls of step 3 *)

\* C17: a request with an empty label or a weight of 0 or less is rejected
\* and yields no nutrition record, and no other request is rejected.
C17_InvalidInputRejected ==
    returned =>
        (calorie_result.raised <=> (primary_label = "" \/ QLe(requested_weight, Zero)))

\* the empty label was resolved to the record of a brand row
C17_EmptyLabelResolved ==
    /\ returned
    /\ primary_label = ""
    /\ ~calorie_result.raised
    /\ brand_entry # None
    /\ QGt(record.total_calories, Zero)

\* how often a client was consulted in the call
Count(client) == Cardinality({i \in 1..Len(calls) : calls[i] = client})

\* the call went through step 3 for the primary label alone
single_label_step3 ==
    /\ returned
    /\ Len(looked_up_locally) = 1
    /\ record.data_source = "calculated"

\* the government client raised, was refused or found nothing
government_failed == usda_reply.kind \in {"search_failed", "no_foods", "detail_failed"}

\* the best row of lookupLocal for the primary label, and its score
local_lookup ==
    BestLocalMatch(1, Lower(primary_label), Words(Lower(primary_label)), None, Zero)

\* the row of lookupCategory for the primary label, or the default row
category_lookup ==
    IF _match_food_category(Lower(primary_label)) = None THEN default_nutrition
    ELSE _match_food_category(Lower(primary_label))

FromRow(row) ==
    IsRounded(record.total_calories,
              QMul(row.calories_per_100g, QDiv(requested_weight, Hundred)), 1)

\* C18: in a call that reaches step 3 for a single label the government
\* client is consulted at most once and the inference client at most once;
\* when the government client fails the record comes from lookupLocal, and
\* from lookupCategory only when no local row scored at least 10.
C18_OneCallThenLocal ==
    single_label_step3 =>
        /\ Count("usda") <= 1
        /\ Count("web") <= 1
        /\ government_failed =>
               /\ Count("usda") = 1
               /\ IF QGe(local_lookup.best_score, Int2Q(10))
                  THEN FromRow(local_lookup.best_match)
                  ELSE FromRow(category_lookup)

\* the government client failed for a label whose best local row scores
\* exactly 10 and which holds a category keyword: the record has the
\* calories of the local row, not those of the category
C18_Witness ==
    /\ single_label_step3
    /\ government_failed
    /\ Count("usda") = 1
    /\ local_lookup.best_score = Int2Q(10)
    /\ category_lookup.calories_per_100g # local_lookup.best_match.calories_per_100g
    /\ FromRow(local_lookup.best_match)
    /\ ~FromRow(category_lookup)

\* the same with a best local score below 10: the calories of the category
C18_BelowTen ==
    /\ single_label_step3
    /\ government_failed
    /\ QGt(local_lookup.best_score, Zero) /\ QLt(local_lookup.best_score, Int2Q(10))
    /\ FromRow(category_lookup)
    /\ ~FromRow(local_lookup.best_match)

\* both clients were consulted once, the inference client first
C18_BothClients ==
    /\ single_label_step3
    /\ government_failed
    /\ calls = <<"web", "usda">>


-----------------------------------------------------------------------------
(* Which correction step 4 of the adjuster follows *)

\* the user's corrections of the raw label, oldest first
exact_matches ==
    SelectSeq(own_feedback, LAMBDA c : c.ai_food_name = analysis_result.food_name)

\* the last n rows at most, the newest first
NewestFirst(rows, n) ==
    [i \in 1..(IF Len(rows) < n THEN Len(rows) ELSE n) |-> rows[Len(rows) + 1 - i]]

\* both calories are recorded and differ by more than 50% of ai_calories
IsCalorieChange(c) ==
    /\ Recorded(c.ai_calories) /\ Recorded(c.corrected_calories)
    /\ QGt(QAbs(QSub(c.corrected_calories, c.ai_calories)),
           QMul(Q(5, 10), c.ai_calories))

WeightRatioInRange(c) ==
    InRange(QDiv(c.corrected_weight_grams, c.ai_weight_grams), Q(3, 10), Int2Q(5))

\* what step 4 multiplies the weight by when it follows correction c
WeightFactor(c) ==
    IF IsPortionCorrection(c) /\ WeightRatioInRange(c)
    THEN QDiv(c.corrected_weight_grams, c.ai_weight_grams)
    ELSE One

\* what step 4 multiplies the calories by when it follows correction c
Step4Factor(c) ==
    IF IsPortionCorrection(c) THEN WeightFactor(c)
    ELSE IF IsCalorieChange(c) THEN QDiv(c.corrected_calories, c.ai_calories)
    ELSE One

\* step 4 has a marker to report when it follows correction c
Marked(c) ==
    \/ c.corrected_food_name # c.ai_food_name
    \/ IsPortionCorrection(c) /\ WeightRatioInRange(c)
    \/ ~IsPortionCorrection(c) /\ IsCalorieChange(c)

\* the name, weight and calories returned are those step 4 makes of the raw
\* record with correction c, the calories further multiplied by the category
\* factor
FollowsCorrection(c, factor) ==
    /\ adjusted.food_name = IF c.corrected_food_name # c.ai_food_name
                            THEN c.corrected_food_name ELSE analysis_result.food_name
    /\ adjusted.weight_grams = QMul(analysis_result.weight_grams, WeightFactor(c))
    /\ adjusted.calories = QMul(QMul(analysis_result.calories, Step4Factor(c)), factor)

ExactBeforeFuzzy(ctx, exact, factor, tagged) ==
    /\ ctx.exact_corrections = NewestFirst(exact, 5)
    /\ exact # <<>> =>
           /\ ctx.fuzzy_corrections = <<>>
           /\ FollowsCorrection(exact[Len(exact)], factor)
           /\ Marked(exact[Len(exact)]) => tagged["exact"]
    /\ (exact = <<>> /\ ctx.fuzzy_corrections # <<>>) =>
           /\ FollowsCorrection(ctx.fuzzy_corrections[1], factor)
           /\ Marked(ctx.fuzzy_corrections[1]) => tagged["fuzzy"]
    /\ (exact = <<>> /\ ctx.fuzzy_corrections = <<>>) =>
           /\ adjusted.food_name = analysis_result.food_name
           /\ adjusted.weight_grams = analysis_result.weight_grams
           /\ adjusted.calories = QMul(analysis_result.calories, factor)

\* C21: with at least one correction of the raw label by the user, step 4
\* follows the most recently created of them, no fuzzy match is computed and
\* the provenance starts with 'exact'; a fuzzy match is followed, with a
\* provenance starting with 'fuzzy', only when there is no exact correction;
\* the five most recent exact corrections at most are fetched.
C21_ExactBeforeFuzzy ==
    pc \in {"done", "again"} =>
        ExactBeforeFuzzy(adjusting, exact_matches, category_factor,
                         [tag \in {"exact", "fuzzy"} |-> StartsWith(provenance, tag)])

\* what does hold of C21: the same, with the provenance starting with the
\* tag unless step 5 replaced it
C21_ExactBeforeFuzzyFigures ==
    pc \in {"done", "again"} =>
        ExactBeforeFuzzy(adjusting, exact_matches, category_factor,
                         [tag \in {"exact", "fuzzy"} |->
                             \/ StartsWith(provenance, tag)
                             \/ /\ category_adjustment(adjusting) # None
                                /\ provenance = "category_calorie_adjustment"])

\* the newest of three corrections of the raw label tripled the calories and
\* the category step fired too: the calories follow it, the provenance does
\* not start with 'exact'
C21_ExactTagReplaced ==
    /\ pc = "done"
    /\ Len(exact_matches) >= 3
    /\ IsCalorieChange(exact_matches[Len(exact_matches)])
    /\ ~IsCalorieChange(exact_matches[1])
    /\ FollowsCorrection(exact_matches[Len(exact_matches)], category_factor)
    /\ category_adjustment(adjusting) # None
    /\ ~StartsWith(provenance, "exact")

\* six corrections of the raw label are stored and the five newest fetched
C21_FiveFetched ==
    /\ pc = "done"
    /\ Len(exact_matches) > 5
    /\ Len(adjusting.exact_corrections) = 5
    /\ adjusting.exact_corrections[1] = exact_matches[Len(exact_matches)]

\* a fuzzy match was followed and tagged
C21_FuzzyFollowed ==
    /\ pc = "done"
    /\ exact_matches = <<>>
    /\ adjusting.fuzzy_corrections # <<>>
    /\ Marked(adjusting.fuzzy_corrections[1])
    /\ StartsWith(provenance, "fuzzy")

\* an exact correction that changes nothing was followed although the table
\* holds a fuzzy match with a portion change
C21_ExactShadowsFuzzy ==
    /\ pc = "done"
    /\ exact_matches # <<>>
    /\ \E i \in 1..Len(own_feedback) :
           /\ IsFuzzyMatch(own_feedback[i], analysis_result.food_name)
           /\ own_feedback[i].ai_food_name # analysis_result.food_name
           /\ IsPortionCorrection(own_feedback[i])
    /\ adjusted.weight_grams = analysis_result.weight_grams


-----------------------------------------------------------------------------
(* The fuzzy candidates of the adjuster *)

\* the user's corrections whose label shares two words or more with the raw
\* label, oldest first
fuzzy_candidates ==
    SelectSeq(own_feedback,
              LAMBDA c : Cardinality(Words(Lower(c.ai_food_name))
                                     \cap Words(Lower(analysis_result.food_name))) >= 2)

\* +100 for a calorie change above 50%, +50 for a weight change above 20%
FlagScore(c) ==
    (IF IsCalorieChange(c) THEN 100 ELSE 0) + (IF IsPortionCorrection(c) THEN 50 ELSE 0)

\* the flag score first, the creation time (which grows with the id) among
\* equal flag scores
FlagsThenRecency(c) == Int2Q(FlagScore(c) * 1000 + c.id)

\* the candidates were all created within 50 000 000 seconds
CreatedWithin(rows, seconds) ==
    \A i, j \in 1..Len(rows) : rows[i].created_at - rows[j].created_at < seconds

\* C22: when no exact correction exists, the fuzzy corrections are the
\* user's corrections sharing at least two words with the raw label, ordered
\* by flag score (+100 calorie change, +50 weight change), the more recent
\* first among equal flag scores, and cut to the first five.
C22_FuzzyByFlagsThenRecency ==
    (pc \in {"done", "again"} /\ exact_matches = <<>>) =>
        adjusting.fuzzy_corrections =
            Limit(SortDescBy(fuzzy_candidates, FlagsThenRecency), 5)

\* what does hold of C22: the same for candidates created within 50 000 000
\* seconds (50 points of the score) of each other
C22_FuzzyOrderWithinSpan ==
    (/\ pc \in {"done", "again"} /\ exact_matches = <<>>
     /\ CreatedWithin(fuzzy_candidates, 50 * 1000000)) =>
        adjusting.fuzzy_corrections =
            Limit(SortDescBy(fuzzy_candidates, FlagsThenRecency), 5)

\* a correction without a flag, made two years after a portion correction,
\* is the first fuzzy correction, and the weight stays as it was
C22_RecencyBeatsFlag ==
    /\ pc = "done"
    /\ exact_matches = <<>>
    /\ Len(adjusting.fuzzy_corrections) = 5
    /\ FlagScore(adjusting.fuzzy_corrections[1]) = 0
    /\ \E i \in 1..Len(fuzzy_candidates) :
           /\ FlagScore(fuzzy_candidates[i]) = 50
           /\ WeightRatioInRange(fuzzy_candidates[i])
    /\ adjusted.weight_grams = analysis_result.weight_grams

\* six candidates a day apart: the five kept start with the newest of those
\* that changed the calories, and the candidate left out has no flag
C22_FiveKept ==
    /\ pc = "done"
    /\ exact_matches = <<>>
    /\ Len(fuzzy_candidates) = 6
    /\ CreatedWithin(fuzzy_candidates, 50 * 1000000)
    /\ Len(adjusting.fuzzy_corrections) = 5
    /\ FlagScore(adjusting.fuzzy_corrections[1]) = 100
    /\ \E i \in 1..6 :
           /\ FlagScore(fuzzy_candidates[i]) = 0
           /\ \A k \in 1..5 : adjusting.fuzzy_corrections[k] # fuzzy_candidates[i]


-----------------------------------------------------------------------------
(* The provenance string of the adjuster *)

\* the markers step 4 has to report when it follows correction c
Step4Markers(c) ==
    (IF c.corrected_food_name # c.ai_food_name THEN {"name_correction"} ELSE {})
    \cup (IF IsPortionCorrection(c) /\ WeightRatioInRange(c) THEN {"portion_adjustment"}
          ELSE IF ~IsPortionCorrection(c) /\ IsCalorieChange(c) THEN {"calorie_correction"}
          ELSE {})

\* the markers of the call: those of step 4 with the exact/fuzzy tag, and
\* that of the category step
markers_applied ==
    (IF correction_used /\ Step4Markers(used) # {}
     THEN Step4Markers(used) \cup {IF exact_matches # <<>> THEN "exact" ELSE "fuzzy"}
     ELSE {})
    \cup (IF category_step_fires THEN {"category_calorie_adjustment"} ELSE {})

\* C23: the provenance string of the result contains the exact/fuzzy tag,
\* every step-4 marker that was applied and category_calorie_adjustment when
\* the category adjustment fired; when no step fired the result carries no
\* provenance.
C23_AllMarkersInProvenance ==
    pc \in {"done", "again"} =>
        /\ \A marker \in markers_applied : In(marker, provenance)
        /\ markers_applied = {} => "learning_applied" \notin DOMAIN adjusted

\* what does hold of C23: the markers of step 4 are all there unless the
\* category step fired, which leaves its own marker alone
C23_LastStepOnly ==
    pc \in {"done", "again"} =>
        /\ IF category_step_fires
           THEN provenance = "category_calorie_adjustment"
           ELSE \A marker \in markers_applied : In(marker, provenance)
        /\ markers_applied = {} => "learning_applied" \notin DOMAIN adjusted

\* step 4 renamed the record and the category step fired: the provenance
\* names neither the tag nor the name correction
C23_MarkersLost ==
    /\ pc = "done"
    /\ correction_used
    /\ "name_correction" \in Step4Markers(used)
    /\ adjusted.food_name = used.corrected_food_name
    /\ category_step_fires
    /\ provenance = "category_calorie_adjustment"

\* name and portion were corrected and the category step did not fire: tag
\* and markers are joined
C23_Composite ==
    /\ pc = "done"
    /\ ~category_step_fires
    /\ provenance = "exact_name_correction_portion_adjustment"
    /\ markers_applied = {"exact", "name_correction", "portion_adjustment"}

\* corrections are stored and none applies: the record has no provenance
C23_NoStepNoProvenance ==
    /\ pc = "done"
    /\ correction_used
    /\ markers_applied = {}
    /\ Len(category_corrections) >= 3
    /\ adjusted = analysis_result


-----------------------------------------------------------------------------
(* What the adjuster may change, and by how much *)

\* the factor between two calorie figures
CalorieFactor(before, after) == QDiv(after.calories, before.calories)

BoundedRatios(raw, step4, final) ==
    /\ InRange(CalorieFactor(raw, step4), Q(3, 10), Int2Q(5))
    /\ InRange(CalorieFactor(step4, final), Q(3, 10), Int2Q(3))
    /\ InRange(CalorieFactor(raw, final), Q(9, 100), Int2Q(15))

\* C28: the factor step 4 applies to the calories is within [0.3, 5.0] and
\* the category factor within [0.3, 3.0], so the adjusted calories are
\* between 0.09 and 15 times the raw calories.
C28_BoundedRatio ==
    pc \in {"done", "again"} => BoundedRatios(analysis_result, after_step4, adjusted)

\* what does hold of C28: the bounds, unless step 4 follows a calorie change
\* that comes without a weight change above 20%
C28_BoundedUnlessCalorieCorrection ==
    (/\ pc \in {"done", "again"}
     /\ ~(/\ correction_used
          /\ ~IsPortionCorrection(used)
          /\ IsCalorieChange(used))) =>
        BoundedRatios(analysis_result, after_step4, adjusted)

\* the newest correction of the label put 4000 kcal for 200 kcal: the
\* calories returned are more than 15 times the raw ones
C28_Runaway ==
    /\ pc = "done"
    /\ correction_used
    /\ IsCalorieChange(used)
    /\ used.corrected_calories = QMul(Int2Q(20), used.ai_calories)
    /\ QGt(adjusted.calories, QMul(Int2Q(15), analysis_result.calories))

\* a weight ratio of 6 is left alone by step 4
C28_PortionOutOfRange ==
    /\ pc = "done"
    /\ correction_used
    /\ IsPortionCorrection(used)
    /\ ~WeightRatioInRange(used)
    /\ after_step4.calories = analysis_result.calories

Untouched(raw, result) ==
    /\ DOMAIN result \subseteq DOMAIN raw \cup {"learning_applied"}
    /\ \A key \in DOMAIN raw \ {"food_name", "weight_grams", "calories"} :
           result[key] = raw[key]

\* C29: whatever the adjuster does (name, portion, calorie or category
\* adjustment, or a failure), protein, carbs and fat of the record are those
\* of the raw record; only food_name, weight_grams, calories and the
\* provenance can differ.
C29_MacrosUntouched ==
    pc \in {"done", "again", "failed"} =>
        /\ adjusted.protein = analysis_result.protein
        /\ adjusted.carbs = analysis_result.carbs
        /\ adjusted.fat = analysis_result.fat
        /\ Untouched(analysis_result, adjusted)

\* weight and calories were changed, by step 4 and by the category step, and
\* the macronutrients are as they were
C29_Witness ==
    /\ pc = "done"
    /\ correction_used
    /\ adjusted.weight_grams # analysis_result.weight_grams
    /\ category_step_fires
    /\ adjusted.calories # QMul(analysis_result.calories, WeightFactor(used))
    /\ adjusted.protein = Int2Q(7) /\ adjusted.carbs = Int2Q(40) /\ adjusted.fat = One

\* name, weight and calories were changed by step 4 and the macronutrients
\* are as they were
C29_RenamedAndScaled ==
    /\ pc = "done"
    /\ adjusted.food_name # analysis_result.food_name
    /\ adjusted.weight_grams # analysis_result.weight_grams
    /\ adjusted.calories # analysis_result.calories
    /\ adjusted.protein = Int2Q(7) /\ adjusted.carbs = Int2Q(40) /\ adjusted.fat = One


-----------------------------------------------------------------------------
(* What an upload makes of the corrections learned before it *)

\* the corrections of the uploading user for the label of the upload that
\* the table held when entry i was uploaded, oldest first
SeenAtUpload(i) ==
    SelectSeq(SubSeq(user_feedback, 1, upload_estimates[i].corrections_seen),
              LAMBDA c : /\ c.user_id = food_entries[i].user_id
                         /\ c.ai_food_name = upload_estimates[i].original_ai_food_name)

\* the user changed the calories by more than 50% and left the weight
LearnedCalories(c) ==
    /\ IsCalorieChange(c)
    /\ c.corrected_weight_grams = c.ai_weight_grams

\* the user saved name, weight and calories as the entry had them
Confirms(c) ==
    /\ c.corrected_food_name = c.ai_food_name
    /\ c.corrected_weight_grams = c.ai_weight_grams
    /\ c.corrected_calories = c.ai_calories

\* entry i has the raw calories multiplied by the calorie ratio of c
AdjustedBy(i, c) ==
    upload_estimates[i].calories =
        Numeric(QMul(upload_estimates[i].raw.calories,
                     QDiv(c.corrected_calories, c.ai_calories)))

\* C27: once the user has corrected the calories of an entry with label L by
\* more than 50% (weight unchanged), every later upload with label L is
\* adjusted by that calorie ratio, also when the entries of such uploads were
\* saved again with their values unchanged in between.
C27_LearnedCorrectionKept ==
    \A i \in 1..Len(food_entries) :
        \A k \in 1..Len(SeenAtUpload(i)) :
            (/\ ~upload_estimates[i].learning_failed
             /\ LearnedCalories(SeenAtUpload(i)[k])
             /\ \A j \in (k + 1)..Len(SeenAtUpload(i)) : Confirms(SeenAtUpload(i)[j]))
                => AdjustedBy(i, SeenAtUpload(i)[k])

\* what does hold of C27: an upload is adjusted by the calorie ratio of the
\* newest correction of its label when that is a calorie correction (and the
\* category step, which needs three corrections, cannot fire)
C27_NewestCorrectionApplied ==
    \A i \in 1..Len(food_entries) :
        (/\ ~upload_estimates[i].learning_failed
         /\ upload_estimates[i].corrections_seen < 3
         /\ SeenAtUpload(i) # <<>>
         /\ LearnedCalories(SeenAtUpload(i)[Len(SeenAtUpload(i))]))
            => AdjustedBy(i, SeenAtUpload(i)[Len(SeenAtUpload(i))])

\* the calories of 'Pasta' were doubled, the next upload came out doubled
\* and was saved again as it was: the upload after that has the raw calories
C27_ResaveCancels ==
    /\ Len(food_entries) = 1
    /\ ~upload_estimates[1].learning_failed
    /\ Len(SeenAtUpload(1)) = 2
    /\ LearnedCalories(SeenAtUpload(1)[1])
    /\ Confirms(SeenAtUpload(1)[2])
    /\ SeenAtUpload(1)[2].ai_calories = SeenAtUpload(1)[1].corrected_calories
    /\ upload_estimates[1].calories = upload_estimates[1].raw.calories

\* the calories of 'Pasta' were doubled and the next upload came out doubled
C27_LearnedOnce ==
    /\ Len(food_entries) = 1
    /\ Len(SeenAtUpload(1)) = 1
    /\ LearnedCalories(SeenAtUpload(1)[1])
    /\ upload_estimates[1].calories = QMul(Int2Q(2), upload_estimates[1].raw.calories)


-----------------------------------------------------------------------------
(* Malformed replies of the inference client *)

\* the numbers a reply must hold in the format the client asks for the label
RequiredReplyFields(name) ==
    IF web_is_fast_food_item(name)
    THEN {"calories", "protein", "carbs", "fat", "confidence"}
    ELSE {"calories_per_100g", "protein_per_100g", "carbs_per_100g", "fat_per_100g",
          "confidence"}
\* the service answered, with no JSON object at all
NoJsonObject ==
    web_reply.kind = "response" /\ web_reply.status_code = 200 /\ reply_json = None
\* the service answered with an object in which the named field is no number
FieldNotNumeric(f) ==
    /\ web_reply.kind = "response" /\ web_reply.status_code = 200
    /\ reply_json # None
    /\ ~IsNumber(Get(reply_json, f, None))
MalformedReply ==
    NoJsonObject \/ \E f \in RequiredReplyFields(primary_label) : FieldNotNumeric(f)
\* what the call returns when the inference client cannot be reached
unreachable_record ==
    calculate_calories(recognition_result, [kind |-> "exception"], usda_reply).val

\* C24: a reply of the inference client with no valid JSON object, or with a
\* required numeric field (calories, macros, confidence) missing or not a
\* number, is handled like an unavailable source: calculate_calories returns
\* the record it returns when the client cannot be reached.
C24_MalformedLikeUnavailable ==
    (returned /\ MalformedReply) => record = unreachable_record

\* C24, what the code does hold: a reply with no JSON object, an empty object
\* or an object without a confidence is handled like an unreachable client.
C24_NoJsonLikeUnavailable ==
    (returned /\ (NoJsonObject \/ (reply_json # None /\ "confidence" \notin DOMAIN reply_json
                                   /\ ~ReplyWronglyTyped)))
        => record = unreachable_record

\* the client was asked, answered with text that holds no JSON object, and the
\* call went on to the local table
C24_NoJsonContinues ==
    /\ returned /\ Consulted("web") /\ NoJsonObject
    /\ record.data_source = "calculated"
    /\ record = unreachable_record

\* a confidence that is no number ends in the flat fallback, where an
\* unreachable client leads to a calculated record
C24_WrongConfidenceFallsBack ==
    /\ returned /\ Consulted("web") /\ FieldNotNumeric("confidence")
    /\ "confidence" \in DOMAIN reply_json
    /\ record.data_source = "fallback_estimate"
    /\ unreachable_record.data_source = "calculated"

\* a reply without calories and with a confidence of 0.9 is accepted, with 0 kcal
C24_MissingCaloriesAccepted ==
    /\ returned /\ Consulted("web") /\ reply_json # None
    /\ "calories" \notin DOMAIN reply_json /\ "calories_per_100g" \notin DOMAIN reply_json
    /\ record.data_source = "web_search_direct"
    /\ record.total_calories = Zero
    /\ unreachable_record.data_source = "calculated"


-----------------------------------------------------------------------------
(* Several detected foods *)

detected_labels == Get(recognition_result, "all_foods", <<primary_label>>)
DistinctLabels == {detected_labels[i] : i \in 1..Len(detected_labels)}
\* neither the brand lookup nor the inference client gave the record, and the
\* call did not end in the flat fallback
FromLaterSources == record.data_source = "calculated"
\* what the call returns for the primary label alone
single_label_record ==
    calculate_calories(Without(recognition_result, "all_foods"), web_reply, usda_reply).val
RECURSIVE FieldSum(_, _, _)
\* the sum of one field over the local records of the labels, each at sub_weight
FieldSum(labels, sub_weight, field) ==
    IF labels = <<>> THEN Zero
    ELSE QAdd(_get_local_nutrition(Head(labels), sub_weight)[field],
              FieldSum(Tail(labels), sub_weight, field))
\* the record is the field-wise sum over the labels, each given an equal share
IsSumOfLabels(r, labels, total) ==
    /\ r.weight_grams = total
    /\ \A f \in {"protein", "carbs", "fat", "fiber", "sugar", "sodium"} :
           r[f] = Round(FieldSum(labels, QDiv(total, Int2Q(Len(labels))), f), 1)
    /\ r.total_calories =
           Round(FieldSum(labels, QDiv(total, Int2Q(Len(labels))), "calories"), 1)

\* C25: when the detected foods hold more than one distinct label and neither
\* the brand lookup nor the inference client gave the record, the record is
\* the field-wise sum of the per-label records at their sub-weights; a list
\* with one distinct label gives the record of the single label.
C25_DistinctLabelsSummed ==
    (returned /\ FromLaterSources) =>
        IF Cardinality(DistinctLabels) > 1
        THEN IsSumOfLabels(record, detected_labels, requested_weight)
        ELSE record = single_label_record

\* C25, what the code does hold: the length of the list decides, so a label
\* listed twice is summed as two foods.
C25_ListLengthDecides ==
    (returned /\ FromLaterSources) =>
        IF Len(detected_labels) > 1
        THEN IsSumOfLabels(record, detected_labels, requested_weight)
        ELSE record = single_label_record

\* two different labels: the sum, which is not the record of the first label
C25_TwoLabelsSummed ==
    /\ returned /\ FromLaterSources /\ Cardinality(DistinctLabels) = 2
    /\ IsSumOfLabels(record, detected_labels, requested_weight)
    /\ record.total_calories # single_label_record.total_calories

\* one label listed twice: two local lookups are summed, where the single
\* label is answered by the government service
C25_DuplicateSummed ==
    /\ returned /\ FromLaterSources
    /\ Len(detected_labels) = 2 /\ Cardinality(DistinctLabels) = 1
    /\ Consulted("usda") /\ single_label_record.data_source = "calculated"
    /\ record.total_calories # single_label_record.total_calories


-----------------------------------------------------------------------------
(* The scored lookup in the local table *)

\* the score of a table key for a lowercased label: 100 for the same string,
\* 80 when one holds the other, else the share of common words in 50 points,
\* and 20 more when a common word is an important one
KeyScore(label, key) ==
    IF label = key THEN Int2Q(100)
    ELSE IF In(label, key) \/ In(key, label) THEN Int2Q(80)
    ELSE IF Words(label) \cap Words(key) = {} THEN Zero
    ELSE QAdd(Q(50 * Cardinality(Words(label) \cap Words(key)),
                Max(Cardinality(Words(label)), Cardinality(Words(key)))),
              IF Words(label) \cap Words(key) \cap important_words # {}
              THEN Int2Q(20) ELSE Zero)
\* the scores of all rows
KeyScores(label) ==
    {KeyScore(label, local_food_db[i].key) : i \in 1..Len(local_food_db)}
\* the highest of them
TopScore(label) ==
    Bind(KeyScores(label), LAMBDA scores :
        CHOOSE s \in scores : \A t \in scores : QGe(s, t))
\* the rows with that score
RowsScoring(label, score) ==
    {i \in 1..Len(local_food_db) : KeyScore(label, local_food_db[i].key) = score}
\* the first of the rows with the highest score, in the order of the table
FirstTopRow(label) ==
    Bind(RowsScoring(label, TopScore(label)), LAMBDA rows :
        CHOOSE i \in rows : \A j \in rows : i <= j)
\* the row the record must come from
ScoredRow(label) ==
    IF QLt(TopScore(label), Int2Q(10))
    THEN category_lookup
    ELSE local_food_db[FirstTopRow(label)]
\* the label's two rows with the highest score, when there are two: <<i, j>>
TiedRows(label) ==
    Bind(RowsScoring(label, TopScore(label)), LAMBDA rows :
        {p \in rows \X rows : p[1] < p[2] /\ Cardinality(rows) = 2})
\* the record is the row scaled to the requested weight
ScaledFrom(row) ==
    /\ FromRow(row)
    /\ \A f \in {"protein", "carbs", "fat", "fiber", "sugar", "sodium"} :
           IsRounded(record[f],
                     QMul(row[f \o "_per_100g"], QDiv(requested_weight, Hundred)), 1)

\* C26: when the record comes from the local lookup of the primary label, it
\* is the row with the highest score (100 for equality, 80 for containment
\* either way, else up to 50 for shared words plus 20 for an important shared
\* word), the first such row in table order; with a best score below 10 it
\* is the row of the category lookup.
C26_HighestScoreFirstWins ==
    (single_label_step3 /\ government_failed) =>
        ScaledFrom(ScoredRow(Lower(primary_label)))

\* two rows score 80 and the label names the later row first: the record has
\* the calories of the earlier row
C26_Witness ==
    /\ single_label_step3 /\ government_failed
    /\ \E p \in TiedRows(Lower(primary_label)) :
          /\ In(local_food_db[p[2]].key \o " " \o local_food_db[p[1]].key,
                Lower(primary_label))
          /\ FromRow(local_food_db[p[1]]) /\ ~FromRow(local_food_db[p[2]])

\* a row scoring 100 after a row scoring 80: the later row gives the record
C26_ExactBeatsEarlier ==
    /\ single_label_step3 /\ government_failed
    /\ \E i \in 1..Len(local_food_db) :
          /\ local_food_db[i].key = Lower(primary_label)
          /\ \E j \in 1..(i - 1) :
                KeyScore(Lower(primary_label), local_food_db[j].key) = Int2Q(80)
          /\ ScaledFrom(local_food_db[i])

\* shared words only, one word of six: the best score is below 10 and the
\* category row gives the record
C26_BelowTenCategory ==
    /\ single_label_step3 /\ government_failed
    /\ QGt(TopScore(Lower(primary_label)), Zero)
    /\ QLt(TopScore(Lower(primary_label)), Int2Q(10))
    /\ FromRow(category_lookup)
    /\ ~FromRow(local_food_db[FirstTopRow(Lower(primary_label))])


-----------------------------------------------------------------------------
(* image_cleanup.py: ImageCleanupManager.  Time is counted in ticks of eight *)
(* hours; a file is known by its name, an archive by the names it holds.       *)

TicksPerDay == 3
MaxTime == 6
Filenames == {"a.jpg", "b.jpg"}
\* the values of keep_days a run is started with (7 is the default)
KeepDays == {0, 1, 7}

\* datetime.now().strftime('%Y%m%d') at tick t
DateStamps == <<"20240101", "20240102", "20240103", "20240104">>
strftime(t) == DateStamps[(t \div TicksPerDay) + 1]

\* line 67
archive_filename(t) == "images_archive_" \o strftime(t) \o ".zip"

\* lines 35 and 52: the files modified before now - timedelta(days=keep_days)
images_to_archive(keep_days) ==
    {f \in DOMAIN upload_folder : upload_folder[f] < now - keep_days * TicksPerDay}

Restrict(d, keys) == [k \in keys |-> d[k]]

\* the UPDATE of lines 99-103 and 164-168: the rows of the named images get
\* the path; a failure of the database is caught and leaves the rows alone
UpdatePath(paths, filenames, path, db_ok) ==
    IF db_ok
    THEN [f \in DOMAIN paths |-> IF f \in filenames THEN path ELSE paths[f]]
    ELSE paths

\* line 70: zipfile.ZipFile(archive_path, 'w') creates the file or truncates
\* it; lines 71-73 write the members
WriteArchive(archives, name, members) == Update(archives, name :> members)

\* app.py upload_food lines 738-743 and 782-796: an image is saved under a
\* name not used before, and its entry holds the path
SaveUpload ==
    /\ \E f \in Filenames \ (DOMAIN upload_folder \cup DOMAIN archived_in) :
           /\ upload_folder' = Update(upload_folder, f :> now)
           /\ image_path' = Update(image_path, f :> "static/uploads/" \o f)
    /\ UNCHANGED <<now, archive_folder, archived_in>>
    /\ UNCHANGED <<pc, resolverVars, distributionVars, classifyVars, learningVars>>

\* eight hours pass
Tick ==
    /\ now < MaxTime
    /\ now' = now + 1
    /\ UNCHANGED <<upload_folder, archive_folder, image_path, archived_in>>
    /\ UNCHANGED <<pc, resolverVars, distributionVars, classifyVars, learningVars>>

\* cleanup_old_images, lines 26-90
CleanupOldImages ==
    /\ \E keep_days \in KeepDays, db_ok \in BOOLEAN :
           \E old \in {images_to_archive(keep_days)} :
               IF old = {}
               THEN UNCHANGED <<upload_folder, archive_folder, image_path, archived_in>>
               ELSE /\ archive_folder' =
                           WriteArchive(archive_folder, archive_filename(now), old)
                    /\ upload_folder' = Restrict(upload_folder, DOMAIN upload_folder \ old)
                    /\ image_path' =
                           UpdatePath(image_path, old,
                                      "archived:" \o archive_filename(now), db_ok)
                    /\ archived_in' =
                           Update(archived_in, [f \in old |-> archive_filename(now)])
    /\ UNCHANGED <<now>>
    /\ UNCHANGED <<pc, resolverVars, distributionVars, classifyVars, learningVars>>

\* lines 142-149: the archives that hold the file; os.listdir yields them in
\* no particular order, so any of them may be the one found
ArchivesHolding(filename) ==
    {a \in DOMAIN archive_folder : filename \in archive_folder[a]}

\* restore_archived_image, lines 140-174, called without an archive name
\* ("" stands for None, line 142 treats both alike) or with one; a call that raises (no archive holds
\* the file, or the named archive does not exist or does not hold it) leaves
\* everything as it was
RestoreArchivedImage ==
    /\ \E filename \in Filenames, db_ok \in BOOLEAN,
          archive_name \in {""} \cup {archive_filename(t) : t \in 0..MaxTime} :
           \E found \in (IF archive_name = "" THEN ArchivesHolding(filename)
                         ELSE {archive_name} \cap ArchivesHolding(filename)) :
               /\ upload_folder' = Update(upload_folder, filename :> now)
               /\ image_path' = UpdatePath(image_path, {filename},
                                           "static/uploads/" \o filename, db_ok)
    /\ UNCHANGED <<now, archive_folder, archived_in>>
    /\ UNCHANGED <<pc, resolverVars, distributionVars, classifyVars, learningVars>>

InitCleanup ==
    /\ pc = "idle"
    /\ NoImages
    /\ recognition_result = Unset /\ web_reply = Unset /\ usda_reply = Unset
    /\ calorie_result = Unset /\ calls = <<>>
    /\ foods = <<>> /\ total_weight = Zero /\ distribution = Unset
    /\ food_name = "" /\ category = ""
    /\ user_feedback = <<>> /\ analysis_result = Unset
    /\ current_user = 0 /\ adjusted = Unset
    /\ food_entries = <<>> /\ upload_estimates = <<>> /\ correction_estimates = <<>>

NextCleanup == SaveUpload \/ Tick \/ CleanupOldImages \/ RestoreArchivedImage

SpecCleanup == InitCleanup /\ [][NextCleanup]_vars

-----------------------------------------------------------------------------
(* Properties of the image store *)

\* the image is in the upload folder or in some archive
StillStored(f) == f \in DOMAIN upload_folder \/ ArchivesHolding(f) # {}

\* C30: after any runs of cleanup_old_images and restore_archived_image,
\* every image cleanup removed from the upload folder is in some archive or
\* back in the upload folder.
C30_ArchivedImagesKept == \A f \in DOMAIN archived_in : StillStored(f)

\* C30, what the code does hold: an image is lost only when the archive it
\* was written to was written again with other images, which only a later
\* run under the same date stamp does.
C30_LostOnlyByRewrite ==
    \A f \in DOMAIN archived_in :
        \/ StillStored(f)
        \/ /\ archived_in[f] \in DOMAIN archive_folder
           /\ archive_folder[archived_in[f]] # {}
           /\ \A g \in archive_folder[archived_in[f]] : g \in DOMAIN archived_in /\ g # f

\* an image is in neither place: a second run of the same day wrote the
\* archive again, with another image
C30_ArchiveOverwritten ==
    \E f \in DOMAIN archived_in :
        /\ ~StillStored(f)
        /\ \E g \in archive_folder[archived_in[f]] : g # f

\* an image archived on one day and another on a later day are both kept
C30_TwoDaysTwoArchives ==
    \E f, g \in DOMAIN archived_in :
        /\ archived_in[f] # archived_in[g]
        /\ f \in archive_folder[archived_in[f]]
        /\ g \in archive_folder[archived_in[g]]

\* an image was archived and restored: it is in both places
C30_Restored ==
    \E f \in DOMAIN archived_in :
        f \in DOMAIN upload_folder /\ ArchivesHolding(f) # {}

=============================================================================
